---------------------------- MODULE Spec2Model ----------------------------
(***************************************************************************)
(* Model of the APR / profitability computation engine of                  *)
(* layer-profitability-checker (src/src/apr.py and callers).               *)
(*                                                                         *)
(* The functions of apr.py are pure functions over Python numbers.  Python *)
(* evaluates `/`, `*`, `-`, `+` on int and float operands in IEEE-754      *)
(* binary64 with round-to-nearest-even; the results of the functions are   *)
(* therefore decided by that rounding, and the model computes them the     *)
(* same way.  A number is a record [s, m, e] standing for                  *)
(*        (-1)^s * m * 2^e                                                 *)
(* with m a natural number of exactly 53 bits (or zero), held as a         *)
(* little-endian sequence of 14-bit limbs because the integers of the      *)
(* model checker are 32 bits wide.                                         *)
(***************************************************************************)
EXTENDS Integers, Sequences, FiniteSets

(***************************************************************************)
(* Natural numbers of arbitrary size: little-endian limb sequences with no *)
(* high zero limb; <<>> is zero.                                           *)
(***************************************************************************)
BASE == 2 ^ 14
LimbBits == CHOOSE k \in 1..30 : 2 ^ k = BASE

Pow2(k) == 2 ^ k

RECURSIVE BTrim(_)
BTrim(a) ==
    IF a = <<>> THEN <<>>
    ELSE IF a[Len(a)] = 0 THEN BTrim(SubSeq(a, 1, Len(a) - 1))
    ELSE a

RECURSIVE BFromInt(_)
BFromInt(n) ==
    IF n = 0 THEN <<>> ELSE <<n % BASE>> \o BFromInt(n \div BASE)

RECURSIVE BAddC(_, _, _)
BAddC(a, b, c) ==
    IF a = <<>> /\ b = <<>> THEN (IF c = 0 THEN <<>> ELSE <<c>>)
    ELSE LET x == (IF a = <<>> THEN 0 ELSE Head(a))
                  + (IF b = <<>> THEN 0 ELSE Head(b)) + c
         IN  <<x % BASE>> \o BAddC(IF a = <<>> THEN <<>> ELSE Tail(a),
                                   IF b = <<>> THEN <<>> ELSE Tail(b),
                                   x \div BASE)

BAdd(a, b) == BAddC(a, b, 0)

\* a - b - c for a >= b + c; the result may carry high zero limbs
RECURSIVE BSubC(_, _, _)
BSubC(a, b, c) ==
    IF a = <<>> THEN <<>>
    ELSE LET x == Head(a) - (IF b = <<>> THEN 0 ELSE Head(b)) - c
         IN  <<x % BASE>> \o BSubC(Tail(a),
                                   IF b = <<>> THEN <<>> ELSE Tail(b),
                                   IF x < 0 THEN 1 ELSE 0)

BSub(a, b) == BTrim(BSubC(a, b, 0))

\* -1, 0, 1 as a < b, a = b, a > b (both trimmed)
RECURSIVE BCmpFrom(_, _, _)
BCmpFrom(a, b, i) ==
    IF i = 0 THEN 0
    ELSE IF a[i] < b[i] THEN -1
    ELSE IF a[i] > b[i] THEN 1
    ELSE BCmpFrom(a, b, i - 1)

BCmp(a, b) ==
    IF Len(a) < Len(b) THEN -1
    ELSE IF Len(a) > Len(b) THEN 1
    ELSE BCmpFrom(a, b, Len(a))

\* a * k + c for 0 <= k, c < BASE
RECURSIVE BMulSmallC(_, _, _)
BMulSmallC(a, k, c) ==
    IF a = <<>> THEN (IF c = 0 THEN <<>> ELSE <<c>>)
    ELSE LET x == Head(a) * k + c
         IN  <<x % BASE>> \o BMulSmallC(Tail(a), k, x \div BASE)

BMulSmall(a, k) == IF k = 0 THEN <<>> ELSE BMulSmallC(a, k, 0)

BZeros(n) == [i \in 1..n |-> 0]

BShlLimbs(a, n) == IF a = <<>> THEN <<>> ELSE BZeros(n) \o a

\* a * b, the limbs of b taken from the top: acc is a times the limbs above i
RECURSIVE BMulFrom(_, _, _, _)
\* the pass below limb i, sum being a times the limbs from i up
BMulNext(a, b, i, sum) ==
    IF sum = <<>> THEN BMulFrom(a, b, i - 1, <<>>) ELSE BMulFrom(a, b, i - 1, sum)

BMulFrom(a, b, i, acc) ==
    IF i = 0 THEN acc
    ELSE BMulNext(a, b, i, BAdd(BMulSmall(a, b[i]), BShlLimbs(acc, 1)))

BMul(a, b) == IF b = <<>> \/ a = <<>> THEN <<>> ELSE BMulFrom(a, b, Len(b), <<>>)

\* quotient and remainder of a by d, 0 < d < BASE; limbs from the top, q the
\* quotient of the limbs above i and r their remainder
RECURSIVE BDivSmallFrom(_, _, _, _, _)
BDivSmallFrom(a, d, i, q, r) ==
    IF i = 0 THEN [q |-> q, r |-> r]
    ELSE LET x == r * BASE + a[i]
         IN  IF x < d THEN BDivSmallFrom(a, d, i - 1, <<0>> \o q, x)
             ELSE BDivSmallFrom(a, d, i - 1, <<x \div d>> \o q, x % d)

BDivSmall(a, d) ==
    LET res == BDivSmallFrom(a, d, Len(a), <<>>, 0)
    IN  [q |-> BTrim(res.q), r |-> res.r]

BShl(a, k) == BShlLimbs(BMulSmall(a, Pow2(k % LimbBits)), k \div LimbBits)

\* floor(a / 2^k)
BShr(a, k) ==
    LET n == k \div LimbBits
    IN  IF n >= Len(a) THEN <<>>
        ELSE BDivSmall(SubSeq(a, n + 1, Len(a)), Pow2(k % LimbBits)).q

\* a mod 2^k
BLow(a, k) ==
    LET n == k \div LimbBits
    IN  IF n >= Len(a) THEN a
        ELSE BTrim(SubSeq(a, 1, n) \o <<a[n + 1] % Pow2(k % LimbBits)>>)

\* the number of bits of a limb n
IntBitLen(n) == CHOOSE k \in 0..LimbBits : n < Pow2(k) /\ (k = 0 \/ n >= Pow2(k - 1))

BBitLen(a) ==
    IF a = <<>> THEN 0 ELSE LimbBits * (Len(a) - 1) + IntBitLen(a[Len(a)])

BIsOdd(a) == a # <<>> /\ a[1] % 2 = 1

\* the largest k with k * b <= r, given an estimate qhat >= k
RECURSIVE BDigitFix(_, _, _)
BDigitFix(r, b, qhat) ==
    IF BCmp(BMulSmall(b, qhat), r) > 0 THEN BDigitFix(r, b, qhat - 1) ELSE qhat

\* floor(r / b) for r < b * BASE, the top limb of b at least BASE / 2: the
\* estimate from the two top limbs of r is at most 2 too large
BDigit(r, b) ==
    IF BCmp(r, b) < 0 THEN 0
    ELSE LET n    == Len(b)
             top2 == (IF Len(r) > n THEN r[n + 1] ELSE 0) * BASE + r[n]
             est  == top2 \div b[n]
         IN  BDigitFix(r, b, IF est > BASE - 1 THEN BASE - 1 ELSE est)

\* schoolbook long division, one limb of the quotient per step from the top:
\* q is the quotient of the limbs above i and r their remainder
RECURSIVE BDivModFrom(_, _, _, _, _)
\* the pass below limb i, r3 the remainder left by the limbs from i up
BDivModNext(a, b, i, q, r3) ==
    IF r3 = <<>> THEN BDivModFrom(a, b, i - 1, q, <<>>) ELSE BDivModFrom(a, b, i - 1, q, r3)

\* the digit d of limb i goes on top of q and d * b comes off r2
BDivModDigit(a, b, i, q, r2, d) ==
    BDivModNext(a, b, i, <<d>> \o q, BSub(r2, BMulSmall(b, d)))

\* r2 is the remainder so far with limb i of a brought down
BDivModStep(a, b, i, q, r2) == BDivModDigit(a, b, i, q, r2, BDigit(r2, b))

BDivModFrom(a, b, i, q, r) ==
    IF i = 0 THEN [q |-> BTrim(q), r |-> r]
    ELSE BDivModStep(a, b, i, q, BTrim(<<a[i]>> \o r))

\* the division of an by bn, both shifted by sh bits, from limb i0 of an down
BDivModShifted(an, bn, sh, i0) ==
    BDivModFrom(an, bn, i0, <<>>, SubSeq(an, i0 + 1, Len(an)))

BDivModUnshift(res, sh) == [q |-> res.q, r |-> BShr(res.r, sh)]

BDivModAligned(an, bn, sh) ==
    BDivModUnshift(BDivModShifted(an, bn, sh,
                                  IF Len(an) < Len(bn) THEN 0 ELSE Len(an) - Len(bn) + 1),
                   sh)

BDivModBy(a, b, sh) == BDivModAligned(BShl(a, sh), BShl(b, sh), sh)

\* floor(a / b) and a mod b for b > 0: both shifted until the top limb of b
\* is at least BASE / 2; the division starts below the top Len(b) - 1 limbs
\* of a, which are less than b
BDivMod(a, b) == BDivModBy(a, b, LimbBits - IntBitLen(b[Len(b)]))

(***************************************************************************)
(* IEEE-754 binary64 numbers (Python float; Python int operands of `/` are *)
(* below 2^53 within the bounds of the model and convert exactly).         *)
(* [s, m, e] is (-1)^s * m * 2^e with 2^52 <= m < 2^53, or m = <<>> (zero, *)
(* e = 0).  The inputs of the model stay far inside the exponent range of  *)
(* binary64, so overflow to infinity and subnormal results do not arise    *)
(* and the exponent is kept unbounded.                                     *)
(***************************************************************************)
MantBits == 53

FZero(s) == [s |-> s, m |-> <<>>, e |-> 0]

FIsZero(a) == a.m = <<>>

\* the double of sign s with the 53 or 54 bits q2, the bits below sh cut off
FRoundUp(s, e, sh, q2) ==
    IF BBitLen(q2) > MantBits
    THEN [s |-> s, m |-> BShr(q2, 1), e |-> e + sh + 1]
    ELSE [s |-> s, m |-> q2, e |-> e + sh]

\* q is n without its low sh bits, c compares these with half a unit of q:
\* to nearest, ties to even
FRoundTie(s, e, sticky, sh, q, c) ==
    FRoundUp(s, e, sh,
             IF c > 0 \/ (c = 0 /\ (sticky \/ BIsOdd(q))) THEN BAdd(q, <<1>>) ELSE q)

\* n of L bits
FRoundBits(s, n, e, sticky, L) ==
    IF L <= MantBits
    THEN [s |-> s, m |-> BShl(n, MantBits - L), e |-> e - (MantBits - L)]
    ELSE FRoundTie(s, e, sticky, L - MantBits, BShr(n, L - MantBits),
                   BCmp(BLow(n, L - MantBits), BShl(<<1>>, L - MantBits - 1)))

\* (-1)^s * (n + f) * 2^e, 0 <= f < 1 and f > 0 iff sticky, rounded to the
\* nearest double, ties to even
FRound(s, n, e, sticky) ==
    IF n = <<>> THEN FZero(s) ELSE FRoundBits(s, n, e, sticky, BBitLen(n))

\* float(n) for a Python int n
FromInt(n) ==
    IF n < 0 THEN FRound(1, BFromInt(-n), 0, FALSE)
    ELSE FRound(0, BFromInt(n), 0, FALSE)

FNeg(a) == [a EXCEPT !.s = 1 - a.s]

FAbs(a) == [a EXCEPT !.s = 0]

FMul(a, b) ==
    IF FIsZero(a) \/ FIsZero(b) THEN FZero((a.s + b.s) % 2)
    ELSE FRound((a.s + b.s) % 2, BMul(a.m, b.m), a.e + b.e, FALSE)

\* the quotient dm.q, inexact where the remainder dm.r is not 0
FDivRound(s, dm, e) == FRound(s, dm.q, e, dm.r # <<>>)

\* a / b for b # 0 (Python raises ZeroDivisionError before dividing by zero)
FDiv(a, b) ==
    IF FIsZero(a) THEN FZero((a.s + b.s) % 2)
    ELSE FDivRound((a.s + b.s) % 2, BDivMod(BShl(a.m, MantBits + 3), b.m),
                   a.e - b.e - (MantBits + 3))

\* the sum of (-1)^sa * A * 2^e and (-1)^sb * B * 2^e, c comparing A with B
FAddSigned(sa, sb, e, A, B, c) ==
    IF sa = sb THEN FRound(sa, BAdd(A, B), e, FALSE)
    ELSE IF c = 0 THEN FZero(0)
    ELSE IF c > 0 THEN FRound(sa, BSub(A, B), e, FALSE)
    ELSE FRound(sb, BSub(B, A), e, FALSE)

FAddShifted(sa, sb, e, A, B) == FAddSigned(sa, sb, e, A, B, BCmp(A, B))

\* a + b with both mantissas at the exponent e, the smaller of the two
FAddAligned(a, b, e) == FAddShifted(a.s, b.s, e, BShl(a.m, a.e - e), BShl(b.m, b.e - e))

FAdd(a, b) ==
    IF FIsZero(a) /\ FIsZero(b) THEN FZero(IF a.s = 1 /\ b.s = 1 THEN 1 ELSE 0)
    ELSE IF FIsZero(a) THEN b
    ELSE IF FIsZero(b) THEN a
    ELSE IF a.e - b.e > MantBits + 3 THEN a
    ELSE IF b.e - a.e > MantBits + 3 THEN b
    ELSE FAddAligned(a, b, IF a.e < b.e THEN a.e ELSE b.e)

FSub(a, b) == FAdd(a, FNeg(b))

\* -1, 0, 1 as |a| < |b|, |a| = |b|, |a| > |b|
FCmpMag(a, b) ==
    IF FIsZero(a) THEN (IF FIsZero(b) THEN 0 ELSE -1)
    ELSE IF FIsZero(b) THEN 1
    ELSE IF a.e < b.e THEN -1
    ELSE IF a.e > b.e THEN 1
    ELSE BCmp(a.m, b.m)

\* -1, 0, 1 as a < b, a == b, a > b (0.0 == -0.0)
FCmp(a, b) ==
    IF FIsZero(a) /\ FIsZero(b) THEN 0
    ELSE IF FIsZero(a) THEN (IF b.s = 0 THEN -1 ELSE 1)
    ELSE IF FIsZero(b) THEN (IF a.s = 0 THEN 1 ELSE -1)
    ELSE IF a.s # b.s THEN (IF a.s = 0 THEN 1 ELSE -1)
    ELSE IF a.s = 0 THEN FCmpMag(a, b)
    ELSE FCmpMag(b, a)

FLt(a, b) == FCmp(a, b) < 0
FLe(a, b) == FCmp(a, b) <= 0
FGt(a, b) == FCmp(a, b) > 0
FGe(a, b) == FCmp(a, b) >= 0
FEq(a, b) == FCmp(a, b) = 0

(***************************************************************************)
(* Results of a call: a returned value, or a raised exception.             *)
(***************************************************************************)
Value(v) == [kind |-> "value", val |-> v]
Raise(e) == [kind |-> "raise", val |-> e]
NoResult == [kind |-> "none", val |-> "none"]
\* None, shaped like a number so that it compares with one (no number has s = -1)
None == [s |-> -1, m |-> <<>>, e |-> 0]

Two == FromInt(2)
Hundred == FromInt(100)
One == FromInt(1)

(***************************************************************************)
(* apr.py: calculate_apr_by_stake                                          *)
(***************************************************************************)
\* (365 * 24 * 3600), the int numerator of blocks_per_year
SecondsPerYear == 365 * 24 * 3600

\* mutant of apr_value: the fee is charged in full, not halved
apr_value_full_fee(stake_amount, total_tokens_active, avg_mint_amount, avg_fee, avg_block_time) ==
    LET proportion_stake == FDiv(stake_amount, total_tokens_active)
        profit_per_block == FSub(FMul(proportion_stake, avg_mint_amount),
                                 avg_fee)
        blocks_per_year  == FDiv(FromInt(SecondsPerYear), avg_block_time)
        annual_profit    == FMul(profit_per_block, blocks_per_year)
    IN  FMul(FDiv(annual_profit, stake_amount), Hundred)

\* mutant of apr_value: half the fee is earned, not paid
apr_value_fee_earned(stake_amount, total_tokens_active, avg_mint_amount, avg_fee, avg_block_time) ==
    LET proportion_stake == FDiv(stake_amount, total_tokens_active)
        profit_per_block == FAdd(FMul(proportion_stake, avg_mint_amount),
                                 FDiv(avg_fee, Two))
        blocks_per_year  == FDiv(FromInt(SecondsPerYear), avg_block_time)
        annual_profit    == FMul(profit_per_block, blocks_per_year)
    IN  FMul(FDiv(annual_profit, stake_amount), Hundred)

\* the arithmetic of lines 11-19 when no divisor is zero
apr_value(stake_amount, total_tokens_active, avg_mint_amount, avg_fee, avg_block_time) ==
    LET proportion_stake == FDiv(stake_amount, total_tokens_active)
        profit_per_block == FSub(FMul(proportion_stake, avg_mint_amount),
                                 FDiv(avg_fee, Two))
        blocks_per_year  == FDiv(FromInt(SecondsPerYear), avg_block_time)
        annual_profit    == FMul(profit_per_block, blocks_per_year)
    IN  FMul(FDiv(annual_profit, stake_amount), Hundred)

\* mutant of calculate_apr_by_stake: a zero stake is answered with 0.0
calculate_apr_by_stake_zero_guard(stake_amount, total_tokens_active, avg_mint_amount, avg_fee, avg_block_time) ==
    IF FIsZero(total_tokens_active) \/ FIsZero(avg_block_time)
    THEN Raise("ZeroDivisionError")
    ELSE IF FIsZero(stake_amount) THEN Value(FZero(0))
    ELSE Value(apr_value(stake_amount, total_tokens_active, avg_mint_amount,
                         avg_fee, avg_block_time))

\* mutant of calculate_apr_by_stake: inputs are validated, a stake, total or
\* block time that is not positive raises
calculate_apr_by_stake_validated(stake_amount, total_tokens_active, avg_mint_amount, avg_fee, avg_block_time) ==
    IF FIsZero(total_tokens_active) \/ FIsZero(avg_block_time)
       \/ FIsZero(stake_amount)
    THEN Raise("ZeroDivisionError")
    ELSE IF stake_amount.s = 1 \/ total_tokens_active.s = 1
            \/ avg_block_time.s = 1
    THEN Raise("ValueError")
    ELSE Value(apr_value(stake_amount, total_tokens_active, avg_mint_amount,
                         avg_fee, avg_block_time))

\* the call on Python numbers (int or float): `/` raises ZeroDivisionError
\* at line 11 (total), 15 (block time) or 19 (stake)
calculate_apr_by_stake(stake_amount, total_tokens_active, avg_mint_amount, avg_fee, avg_block_time) ==
    IF FIsZero(total_tokens_active) \/ FIsZero(avg_block_time)
       \/ FIsZero(stake_amount)
    THEN Raise("ZeroDivisionError")
    ELSE Value(apr_value(stake_amount, total_tokens_active, avg_mint_amount,
                         avg_fee, avg_block_time))

(***************************************************************************)
(* State: one call of one function at a time.  op names the function, args *)
(* holds its arguments, loc the locals of a function modelled in steps,    *)
(* pc the position of the call and ret what it returned or raised.         *)
(***************************************************************************)
VARIABLES op, args, loc, pc, ret

vars == <<op, args, loc, pc, ret>>

NoLocals == [i |-> 0]

(***************************************************************************)
(* Calls of calculate_apr_by_stake                                         *)
(***************************************************************************)
MaxStakeUnits == 3
MaxFeeUnits == 2
Million == 10 ^ 6

AprStakes == {FromInt(k * Million) : k \in -1..MaxStakeUnits} \cup {FromInt(3)}
AprTotals == {FromInt(-3), FromInt(0), FromInt(3), FromInt(7 * Million),
              FMul(FromInt(10000), FromInt(Million))}
AprMints  == {FromInt(-1), FromInt(0), FromInt(5), FromInt(Million)}
AprFees   == {FromInt(5 * k) : k \in 0..MaxFeeUnits} \cup {FromInt(100000)}
AprBlockTimes == {FromInt(-2), FromInt(0), FromInt(2), FromInt(6),
                  FDiv(FromInt(17), FromInt(10))}

AprArgs == [stake : AprStakes, total : AprTotals, mint : AprMints,
            fee : AprFees, bt : AprBlockTimes]

InitApr ==
    /\ op = "calculate_apr_by_stake"
    /\ args \in AprArgs
    /\ loc = NoLocals
    /\ pc = "call"
    /\ ret = NoResult

CallAprByStake ==
    /\ op = "calculate_apr_by_stake"
    /\ pc = "call"
    /\ ret' = calculate_apr_by_stake(args.stake, args.total, args.mint,
                                     args.fee, args.bt)
    /\ pc' = "done"
    /\ UNCHANGED <<op, args, loc>>

NextApr == CallAprByStake

SpecApr == InitApr /\ [][NextApr]_vars

AprDone == op = "calculate_apr_by_stake" /\ pc = "done"

Positive(x) == FGt(x, FZero(0))
Negative(x) == FLt(x, FZero(0))

\* C1: for stake > 0, total_active_stake > 0 and avg_block_time > 0 (any
\* avg_mint, any avg_fee >= 0) calculate_apr_by_stake returns exactly
\* ((stake / total) * avg_mint - avg_fee / 2) * (365*24*3600 / avg_block_time)
\* / stake * 100, evaluated left to right in Python's arithmetic.
C1_AprFormula ==
    (AprDone /\ Positive(args.stake) /\ Positive(args.total)
     /\ Positive(args.bt) /\ FGe(args.fee, FZero(0)))
    => ret = Value(
         FMul(FDiv(FMul(FSub(FMul(FDiv(args.stake, args.total), args.mint),
                             FDiv(args.fee, FromInt(2))),
                        FDiv(FromInt(365 * 24 * 3600), args.bt)),
                   args.stake),
              FromInt(100)))

C1_Witness ==
    /\ AprDone /\ Positive(args.stake) /\ Positive(args.total)
    /\ Positive(args.bt) /\ Positive(args.fee) /\ Positive(args.mint)
    /\ ret.kind = "value" /\ Negative(ret.val)

\* C2: calculate_apr_by_stake called with stake == 0, every other input valid
\* and positive, raises a division-by-zero error and returns no APR value.
C2_ZeroStakeRaises ==
    (AprDone /\ FIsZero(args.stake) /\ Positive(args.total)
     /\ Positive(args.mint) /\ Positive(args.fee) /\ Positive(args.bt))
    => ret = Raise("ZeroDivisionError")

C2_Witness ==
    /\ AprDone /\ FIsZero(args.stake) /\ Positive(args.total)
    /\ Positive(args.mint) /\ Positive(args.fee) /\ Positive(args.bt)
    /\ ret.kind = "raise"

\* C3 as claimed: whenever stake, total_active_stake or avg_block_time is zero
\* or negative, the call signals an error; for no such input does it return a
\* number.
C3_NonPositiveRaises ==
    (AprDone /\ (~Positive(args.stake) \/ ~Positive(args.total)
                 \/ ~Positive(args.bt)))
    => ret.kind = "raise"

\* C3 as amended: the call raises ZeroDivisionError exactly when stake,
\* total_active_stake or avg_block_time is zero; a negative value of any of
\* them is not rejected and the call returns a number.
C3_ZeroRaisesNegativeReturns ==
    AprDone =>
        IF FIsZero(args.stake) \/ FIsZero(args.total) \/ FIsZero(args.bt)
        THEN ret = Raise("ZeroDivisionError")
        ELSE ret.kind = "value"

C3_Witness ==
    /\ AprDone /\ Negative(args.stake) /\ Positive(args.total)
    /\ Positive(args.bt) /\ ret.kind = "value"

(***************************************************************************)
(* apr.py: calculate_break_even_stake, and the evaluation of the APR at    *)
(* and around the break-even stake as generate_apr_chart does it           *)
(* (apr.py:56-60, 79-83; checker.py:482-502 passes the closed form).       *)
(***************************************************************************)
\* mutant of calculate_break_even_stake: the fee is not halved
calculate_break_even_stake_full_fee(total_tokens_active, avg_mint_amount, avg_fee, avg_block_time, median_stake) ==
    IF Positive(avg_mint_amount)
    THEN LET break_even_stake == FDiv(FMul(avg_fee, total_tokens_active),
                                      avg_mint_amount)
             break_even_mult  == IF Positive(median_stake)
                                 THEN FDiv(break_even_stake, median_stake)
                                 ELSE FromInt(0)
         IN  Value(<<break_even_stake, break_even_mult>>)
    ELSE Value(<<None, None>>)

\* mutant of calculate_break_even_stake: the multiplier is computed for every
\* nonzero median stake (`!= 0` in place of `> 0`)
calculate_break_even_stake_nonzero_median(total_tokens_active, avg_mint_amount, avg_fee, avg_block_time, median_stake) ==
    IF Positive(avg_mint_amount)
    THEN LET break_even_stake == FDiv(FMul(FDiv(avg_fee, Two),
                                           total_tokens_active),
                                      avg_mint_amount)
             break_even_mult  == IF ~FIsZero(median_stake)
                                 THEN FDiv(break_even_stake, median_stake)
                                 ELSE FromInt(0)
         IN  Value(<<break_even_stake, break_even_mult>>)
    ELSE Value(<<None, None>>)

\* mutant of calculate_break_even_stake: no mint answers the sentinel 0
calculate_break_even_stake_sentinel(total_tokens_active, avg_mint_amount, avg_fee, avg_block_time, median_stake) ==
    IF Positive(avg_mint_amount)
    THEN LET break_even_stake == FDiv(FMul(FDiv(avg_fee, Two),
                                           total_tokens_active),
                                      avg_mint_amount)
             break_even_mult  == IF Positive(median_stake)
                                 THEN FDiv(break_even_stake, median_stake)
                                 ELSE FromInt(0)
         IN  Value(<<break_even_stake, break_even_mult>>)
    ELSE IF FIsZero(avg_mint_amount) THEN Value(<<FromInt(0), FromInt(0)>>)
    ELSE Value(<<None, None>>)

calculate_break_even_stake(total_tokens_active, avg_mint_amount, avg_fee, avg_block_time, median_stake) ==
    IF Positive(avg_mint_amount)
    THEN LET break_even_stake == FDiv(FMul(FDiv(avg_fee, Two),
                                           total_tokens_active),
                                      avg_mint_amount)
             break_even_mult  == IF Positive(median_stake)
                                 THEN FDiv(break_even_stake, median_stake)
                                 ELSE FromInt(0)
         IN  Value(<<break_even_stake, break_even_mult>>)
    ELSE Value(<<None, None>>)

\* the doubles next to a positive double x
FNextUp(x) ==
    IF BCmp(x.m, BSub(BShl(<<1>>, MantBits), <<1>>)) = 0
    THEN [s |-> x.s, m |-> BShl(<<1>>, MantBits - 1), e |-> x.e + 1]
    ELSE [x EXCEPT !.m = BAdd(x.m, <<1>>)]

FNextDown(x) ==
    IF BCmp(x.m, BShl(<<1>>, MantBits - 1)) = 0
    THEN [s |-> x.s, m |-> BSub(BShl(<<1>>, MantBits), <<1>>), e |-> x.e - 1]
    ELSE [x EXCEPT !.m = BSub(x.m, <<1>>)]

\* x moved j doubles up (j > 0) or down (j < 0)
RECURSIVE FUlps(_, _)
FUlps(x, j) ==
    IF j = 0 THEN x
    ELSE IF j > 0 THEN FUlps(FNextUp(x), j - 1)
    ELSE FUlps(FNextDown(x), j + 1)

MaxUlps == 6

BeTotals  == {FromInt(0), FromInt(3), FromInt(7 * Million),
              FMul(FromInt(10000), FromInt(Million))}
BeMints   == {FromInt(-1), FromInt(0), FromInt(5), FromInt(Million)}
BeFees    == {FromInt(0), FromInt(1), FromInt(5), FromInt(100000)}
BeBlockTimes == {FromInt(2), FDiv(FromInt(17), FromInt(10))}
BeMedians == {FromInt(-Million), FromInt(0), FromInt(3), FromInt(Million)}

BeArgs == [total : BeTotals, mint : BeMints, fee : BeFees,
           bt : BeBlockTimes, median : BeMedians]

\* the stakes at which the APR is evaluated once the break-even is known
ProbeStakes(break_even_stake) ==
    IF FIsZero(break_even_stake) THEN {break_even_stake}
    ELSE {FUlps(break_even_stake, j) : j \in -MaxUlps..MaxUlps}
         \cup {FDiv(break_even_stake, Two), FMul(break_even_stake, Two)}

InitBreakEven ==
    /\ op = "calculate_break_even_stake"
    /\ args \in BeArgs
    /\ loc = NoLocals
    /\ pc = "call"
    /\ ret = NoResult

CallBreakEven ==
    /\ op = "calculate_break_even_stake"
    /\ pc = "call"
    /\ ret' = calculate_break_even_stake(args.total, args.mint, args.fee,
                                         args.bt, args.median)
    /\ pc' = "returned"
    /\ UNCHANGED <<op, args, loc>>

\* calculate_apr_by_stake at a stake at or around the returned break-even
AprAtBreakEven ==
    /\ op = "calculate_break_even_stake"
    /\ pc = "returned"
    /\ ret.val[1] # None
    /\ \E stake \in ProbeStakes(ret.val[1]) :
          loc' = [stake |-> stake,
                  apr   |-> calculate_apr_by_stake(stake, args.total, args.mint,
                                                   args.fee, args.bt)]
    /\ pc' = "charted"
    /\ UNCHANGED <<op, args, ret>>

NextBreakEven == CallBreakEven \/ AprAtBreakEven

SpecBreakEven == InitBreakEven /\ [][NextBreakEven]_vars

BeReturned == op = "calculate_break_even_stake" /\ pc \in {"returned", "charted"}
BeCharted == op = "calculate_break_even_stake" /\ pc = "charted"

\* C4 as claimed: for avg_mint > 0 the call returns break_even_stake =
\* (avg_fee / 2) * total_active_stake / avg_mint with break_even_multiplier =
\* break_even_stake / median_stake when the median stake is nonzero and 0
\* otherwise; with avg_fee, total and median positive both are > 0.
C4_MultiplierForNonzeroMedian ==
    (BeReturned /\ Positive(args.mint)) =>
        LET bes == FDiv(FMul(FDiv(args.fee, FromInt(2)), args.total), args.mint)
        IN  /\ ret.kind = "value"
            /\ ret.val[1] = bes
            /\ FEq(ret.val[2], IF ~FIsZero(args.median)
                                THEN FDiv(bes, args.median) ELSE FromInt(0))
            /\ (Positive(args.fee) /\ Positive(args.total)
                /\ Positive(args.median))
               => (Positive(ret.val[1]) /\ Positive(ret.val[2]))

\* C4 as amended: the multiplier is break_even_stake / median_stake when the
\* median stake is > 0 and 0 otherwise (also for a negative median stake).
C4_MultiplierForPositiveMedian ==
    (BeReturned /\ Positive(args.mint)) =>
        LET bes == FDiv(FMul(FDiv(args.fee, FromInt(2)), args.total), args.mint)
        IN  /\ ret.kind = "value"
            /\ ret.val[1] = bes
            /\ FEq(ret.val[2], IF Positive(args.median)
                                THEN FDiv(bes, args.median) ELSE FromInt(0))
            /\ (Positive(args.fee) /\ Positive(args.total)
                /\ Positive(args.median))
               => (Positive(ret.val[1]) /\ Positive(ret.val[2]))

C4_Witness ==
    /\ BeReturned /\ Positive(args.mint) /\ Positive(args.fee)
    /\ Positive(args.total) /\ Positive(args.median)
    /\ Positive(ret.val[1]) /\ Positive(ret.val[2])
    /\ ret.val[2] # ret.val[1]

\* C5: when avg_mint <= 0 calculate_break_even_stake returns the no-result
\* pair (None, None), never a number, whatever the other inputs are.
C5_NoMintNoResult ==
    (BeReturned /\ ~Positive(args.mint)) => ret = Value(<<None, None>>)

C5_Witness ==
    /\ BeReturned /\ FIsZero(args.mint) /\ Positive(args.fee)
    /\ Positive(args.total) /\ ret.val[1] = None /\ ret.val[2] = None

\* 2^-50
C6_TwoToMinus50 == FMul(FDiv(One, FromInt(2 ^ 25)), FDiv(One, FromInt(2 ^ 25)))

\* the fee term of the APR at a stake: (avg_fee / 2) * blocks_per_year / stake * 100
C6_FeeTermOfApr(stake) ==
    FMul(FDiv(FMul(FDiv(args.fee, Two), FDiv(FromInt(SecondsPerYear), args.bt)),
              stake),
         Hundred)

\* C6 as claimed: for avg_mint, avg_fee, total_active_stake, avg_block_time
\* all > 0 the APR at the stake returned by calculate_break_even_stake is 0,
\* negative at every smaller positive stake and positive at every larger one.
C6_ExactRoot ==
    (BeCharted /\ Positive(args.mint) /\ Positive(args.fee)
     /\ Positive(args.total) /\ Positive(args.bt)) =>
        /\ loc.apr.kind = "value"
        /\ FEq(loc.stake, ret.val[1]) => FIsZero(loc.apr.val)
        /\ FLt(loc.stake, ret.val[1]) => Negative(loc.apr.val)
        /\ FGt(loc.stake, ret.val[1]) => Positive(loc.apr.val)

\* C6 as amended: the returned stake is a root up to rounding: there the APR
\* is at most 2^-50 of its fee term in magnitude; the APR is negative at every
\* positive stake 5 or more doubles below the returned stake and positive at
\* every stake 5 or more doubles above it.
C6_RootUpToRounding ==
    (BeCharted /\ Positive(args.mint) /\ Positive(args.fee)
     /\ Positive(args.total) /\ Positive(args.bt)) =>
        /\ loc.apr.kind = "value"
        /\ FEq(loc.stake, ret.val[1])
           => FLe(FAbs(loc.apr.val), FMul(C6_TwoToMinus50, C6_FeeTermOfApr(loc.stake)))
        /\ FLe(loc.stake, FUlps(ret.val[1], -5)) => Negative(loc.apr.val)
        /\ FGe(loc.stake, FUlps(ret.val[1], 5)) => Positive(loc.apr.val)

\* the APR evaluated at the returned stake itself and a rounding residual left
C6_Witness ==
    /\ BeCharted /\ Positive(args.mint) /\ Positive(args.fee)
    /\ Positive(args.total) /\ Positive(args.bt)
    /\ FEq(loc.stake, ret.val[1])
    /\ loc.apr.kind = "value" /\ ~FIsZero(loc.apr.val)

(***************************************************************************)
(* print_apr_table: the numerical break-even search and the table after it *)
(***************************************************************************)
GridPoints == 2000
GridStart == FDiv(One, FromInt(20))
GridStop == FDiv(One, FromInt(4))

\* numpy.linspace(0.05, 0.25, 2000): step = (stop - start) / (num - 1),
\* point i (from 0) is arange(num)[i] * step + start, the last point is stop
GridStep == FDiv(FSub(GridStop, GridStart), FromInt(GridPoints - 1))

linspace(i) ==
    IF i = GridPoints - 1 THEN GridStop
    ELSE FAdd(FMul(FromInt(i), GridStep), GridStart)

\* an inf or nan of numpy.float64 arithmetic
NonFinite == [s |-> -2, m |-> <<>>, e |-> 0]

\* calculate_apr_by_stake on a numpy.float64 stake: numpy divides by zero
\* into inf or nan without raising, the int / float division by
\* avg_block_time still raises
calculate_apr_by_stake_float64(stake_amount, total_tokens_active, avg_mint_amount, avg_fee, avg_block_time) ==
    IF FIsZero(avg_block_time) THEN Raise("ZeroDivisionError")
    ELSE IF FIsZero(total_tokens_active) \/ FIsZero(stake_amount)
    THEN Value(NonFinite)
    ELSE Value(apr_value(stake_amount, total_tokens_active, avg_mint_amount,
                         avg_fee, avg_block_time))

SearchLocals == [i |-> 0, break_even_stake |-> None, break_even_mult |-> None]

\* the rest of a pass once test_apr is known, without the break: the search
\* goes on after a hit
search_accept_no_break(l, test_mult, test_stake, test_apr) ==
    IF test_apr.kind = "raise"
    THEN [loc |-> l, pc |-> "done", ret |-> test_apr]
    ELSE [loc |-> IF test_apr.val # NonFinite /\ FLt(FAbs(test_apr.val), One)
                  THEN [i |-> l.i + 1, break_even_stake |-> test_stake,
                        break_even_mult |-> test_mult]
                  ELSE [l EXCEPT !.i = l.i + 1],
          pc |-> IF l.i + 1 = GridPoints THEN "table" ELSE "scan",
          ret |-> NoResult]

\* the rest of a pass with the test abs(test_apr) < 10.0
search_accept_loose(l, test_mult, test_stake, test_apr) ==
    IF test_apr.kind = "raise"
    THEN [loc |-> l, pc |-> "done", ret |-> test_apr]
    ELSE IF test_apr.val # NonFinite /\ FLt(FAbs(test_apr.val), FromInt(10))
    THEN [loc |-> [l EXCEPT !.break_even_stake = test_stake,
                            !.break_even_mult = test_mult],
          pc |-> "table", ret |-> NoResult]
    ELSE [loc |-> [l EXCEPT !.i = l.i + 1],
          pc |-> IF l.i + 1 = GridPoints THEN "table" ELSE "scan",
          ret |-> NoResult]

\* apr.py:138-141 and the loop's advance: a raise leaves the function, a
\* test_apr with abs(test_apr) < 1.0 is recorded and breaks the loop,
\* anything else (inf and nan included) moves to the next grid point
search_accept(l, test_mult, test_stake, test_apr) ==
    IF test_apr.kind = "raise"
    THEN [loc |-> l, pc |-> "done", ret |-> test_apr]
    ELSE IF test_apr.val # NonFinite /\ FLt(FAbs(test_apr.val), One)
    THEN [loc |-> [l EXCEPT !.break_even_stake = test_stake,
                            !.break_even_mult = test_mult],
          pc |-> "table", ret |-> NoResult]
    ELSE [loc |-> [l EXCEPT !.i = l.i + 1],
          pc |-> IF l.i + 1 = GridPoints THEN "table" ELSE "scan",
          ret |-> NoResult]

\* apr.py:135-137
search_apr(l, a, test_mult, test_stake) ==
    search_accept(l, test_mult, test_stake,
                  calculate_apr_by_stake_float64(test_stake, a.total, a.mint,
                                                 a.fee, a.bt))

\* apr.py:134
search_stake(l, a, test_mult) == search_apr(l, a, test_mult, FMul(a.median, test_mult))

\* one pass of the loop at apr.py:133-141, at grid index l.i
search_iteration(l, a) == search_stake(l, a, linspace(l.i))

\* apr.py:144-231: 1e6 / median_stake, the rows' calculate_apr_by_stake on
\* Python floats (the 1 TRB row and the median row are always there), and the
\* return of what the search found
print_table_and_return(l, a) ==
    IF FIsZero(a.median) THEN Raise("ZeroDivisionError")
    ELSE IF FIsZero(a.total) THEN Raise("ZeroDivisionError")
    ELSE Value(<<l.break_even_stake, l.break_even_mult>>)

\* the arguments of a call from whole numbers: the total in millions, the
\* fee in thousandths
SearchArg(t) ==
    [total  |-> FMul(FromInt(t[1]), FromInt(Million)),
     mint   |-> FromInt(t[2]),
     fee    |-> FDiv(FromInt(t[3]), FromInt(1000)),
     bt     |-> FromInt(t[4]),
     median |-> FromInt(t[5])]

\* total = 52560e6 and mint = 1000 at 6 s blocks: the APR tends to 10 %, and
\* with fee = 1 it is 0 at stake 26280000
SearchInputs ==
    { <<52560, 1000, 1000, 6, 398000000>>,  \* root at 0.066 of the median stake
      <<52560, 1000, 1000, 6, 525600000>>,  \* root at 0.05: the first grid point
      <<52560, 1000, 1000, 6, 26280000>>,   \* root at the median, out of range
      <<52560, 50, 0, 6, 262800000>>,       \* no fee, APR 0.5 % at every stake
      <<52560, 50, 0, 6, -262800000>>,      \* the same, negative median
      <<52560, 0, 1, 6, 398000000>>,        \* no mint: the fee term alone
      <<52560, 1000, 1000, 6, 0>>,          \* zero median stake
      <<0, 1000, 1000, 6, 262800000>>,      \* zero total
      <<52560, 1000, 1000, 0, 262800000>> } \* zero block time

SearchArgs == {SearchArg(t) : t \in SearchInputs}

InitSearch ==
    /\ op = "print_apr_table"
    /\ args \in SearchArgs
    /\ loc = SearchLocals
    /\ pc = "scan"
    /\ ret = NoResult

SearchIteration ==
    /\ op = "print_apr_table"
    /\ pc = "scan"
    /\ LET after == search_iteration(loc, args)
       IN  /\ loc' = after.loc
           /\ pc' = after.pc
           /\ ret' = after.ret
    /\ UNCHANGED <<op, args>>

PrintTableAndReturn ==
    /\ op = "print_apr_table"
    /\ pc = "table"
    /\ ret' = print_table_and_return(loc, args)
    /\ pc' = "done"
    /\ UNCHANGED <<op, args, loc>>

NextSearch == SearchIteration \/ PrintTableAndReturn

SpecSearch == InitSearch /\ [][NextSearch]_vars

SearchReturned == op = "print_apr_table" /\ pc = "done" /\ ret.kind = "value"

\* the APR of grid multiplier j is within the tolerance: |apr| < 1.0
C7_InTolerance(j) ==
    LET apr == calculate_apr_by_stake_float64(FMul(args.median, linspace(j)),
                                              args.total, args.mint, args.fee,
                                              args.bt)
    IN  apr.kind = "value" /\ apr.val # NonFinite /\ FLt(FAbs(apr.val), One)

\* C7: the search of print_apr_table returns (m * reference_stake, m) for the
\* first of the 2000 grid multipliers from 0.05 to 0.25, in ascending order,
\* whose APR has |apr| < 1.0 (every earlier multiplier has |apr| >= 1.0), and
\* (None, None) exactly when no grid multiplier is within the tolerance.
C7_FirstGridHit ==
    SearchReturned =>
        \/ /\ ret.val = <<None, None>>
           /\ \A j \in 0..(GridPoints - 1) : ~C7_InTolerance(j)
        \/ \E k \in 0..(GridPoints - 1) :
              /\ ret.val = <<FMul(args.median, linspace(k)), linspace(k)>>
              /\ C7_InTolerance(k)
              /\ \A j \in 0..(k - 1) : ~C7_InTolerance(j)
              /\ \A j \in 0..(k - 1) : FLt(linspace(j), linspace(k))

\* a stake found after earlier grid multipliers were passed over
C7_Witness ==
    /\ SearchReturned
    /\ ret.val[2] # None
    /\ FGt(ret.val[2], GridStart) /\ FLt(ret.val[2], GridStop)
    /\ loc.i > 0

C8_ClosedForm ==
    calculate_break_even_stake(args.total, args.mint, args.fee, args.bt,
                               args.median).val[1]

C8_AprAt(stake) ==
    calculate_apr_by_stake(stake, args.total, args.mint, args.fee, args.bt)

\* C8 as claimed: on the same inputs with avg_mint > 0 the closed-form
\* break-even and the break-even of the numerical search agree within the
\* tolerance: both are stakes and their APRs differ by less than 1.0.
C8_SolversAgree ==
    (SearchReturned /\ Positive(args.mint)) =>
        /\ C8_ClosedForm # None
        /\ ret.val[1] # None
        /\ C8_AprAt(C8_ClosedForm).kind = "value"
        /\ C8_AprAt(ret.val[1]).kind = "value"
        /\ FLt(FAbs(FSub(C8_AprAt(ret.val[1]).val, C8_AprAt(C8_ClosedForm).val)),
               One)

\* C8 as amended: with avg_mint > 0 and avg_fee nonzero, whenever the search
\* returns a stake the APR at that stake is less than 1.0 from 0 and the APR
\* at the closed-form stake is 0 up to rounding (at most 2^-50 of its fee
\* term).
C8_AgreeWhenFound ==
    (SearchReturned /\ Positive(args.mint) /\ ~FIsZero(args.fee)
     /\ ret.val[1] # None) =>
        /\ C8_ClosedForm # None
        /\ C8_AprAt(C8_ClosedForm).kind = "value"
        /\ C8_AprAt(ret.val[1]).kind = "value"
        /\ FLt(FAbs(C8_AprAt(ret.val[1]).val), One)
        /\ FLe(FAbs(C8_AprAt(C8_ClosedForm).val),
               FMul(C6_TwoToMinus50, FAbs(C6_FeeTermOfApr(C8_ClosedForm))))

\* both solvers gave a stake, and not the same one
C8_Witness ==
    /\ SearchReturned /\ Positive(args.mint) /\ ~FIsZero(args.fee)
    /\ ret.val[1] # None
    /\ C8_ClosedForm # None
    /\ ~FEq(ret.val[1], C8_ClosedForm)

(***************************************************************************)
(* calculate_reporter_aprs.  A reporter is the dict get_reporters builds:  *)
(* address, power, moniker and commission_rate, all strings.               *)
(***************************************************************************)
DigitChars == <<"0", "1", "2", "3", "4", "5", "6", "7", "8", "9">>

IsDigitChar(c) == \E d \in 1..10 : DigitChars[d] = c

DigitVal(c) == (CHOOSE d \in 1..10 : DigitChars[d] = c) - 1

\* str.isdigit(): not empty and every character a digit
isdigit(str) ==
    Len(str) > 0 /\ \A i \in 1..Len(str) : IsDigitChar(SubSeq(str, i, i))

\* int(str) for a string of decimal digits
RECURSIVE int(_)
int(str) ==
    IF Len(str) = 0 THEN 0
    ELSE int(SubSeq(str, 1, Len(str) - 1)) * 10
         + DigitVal(SubSeq(str, Len(str), Len(str)))

\* the digits of str as a natural number of any size, four digits a step
RECURSIVE BFromDigits(_)
BFromDigits(str) ==
    IF Len(str) <= 4 THEN BFromInt(int(str))
    ELSE BAdd(BMulSmall(BFromDigits(SubSeq(str, 1, Len(str) - 4)), 10000),
              BFromInt(int(SubSeq(str, Len(str) - 3, Len(str)))))

RECURSIVE BPow10(_)
BPow10(k) ==
    IF k = 0 THEN <<1>>
    ELSE IF k < 4 THEN BMulSmall(BPow10(k - 1), 10)
    ELSE BMulSmall(BPow10(k - 4), 10000)

\* n / d for naturals n, d > 0, rounded once to the nearest double
FDivNat(n, d) ==
    IF n = <<>> THEN FZero(0)
    ELSE LET gap == MantBits + 3 + BBitLen(d) - BBitLen(n)
             sh  == IF gap > 0 THEN gap ELSE 0
             dm  == BDivMod(BShl(n, sh), d)
         IN  FRound(0, dm.q, -sh, dm.r # <<>>)

\* float(str) for str of the form digits or digits.digits: the decimal
\* number, correctly rounded
float(str) ==
    LET p      == IF \E i \in 1..Len(str) : SubSeq(str, i, i) = "."
                  THEN CHOOSE i \in 1..Len(str) : SubSeq(str, i, i) = "."
                  ELSE 0
        digits == IF p = 0 THEN str
                  ELSE SubSeq(str, 1, p - 1) \o SubSeq(str, p + 1, Len(str))
        places == IF p = 0 THEN 0 ELSE Len(str) - p
    IN  FDivNat(BFromDigits(digits), BPow10(places))

\* reporter["address"][:12] + "..."
short_address(address) ==
    SubSeq(address, 1, IF Len(address) < 12 THEN Len(address) ELSE 12) \o "..."

\* int(reporter["power"]) if reporter["power"].isdigit() else 0
power_of(reporter) == IF isdigit(reporter.power) THEN int(reporter.power) ELSE 0

\* apr.py:366-375: the dict appended for a reporter, or the exception of
\* the APR call
reporter_dict(reporter, power_trb, apr) ==
    IF apr.kind = "raise" THEN apr
    ELSE Value([address |-> reporter.address,
                moniker |-> IF reporter.moniker # "" THEN reporter.moniker
                            ELSE short_address(reporter.address),
                power_trb |-> power_trb,
                apr |-> apr.val,
                commission_rate |->
                    IF reporter.commission_rate # ""
                    THEN FMul(float(reporter.commission_rate), Hundred)
                    ELSE FromInt(0)])

\* the record with avg_mint_amount and avg_fee taken for each other
reporter_record_swapped(reporter, power_trb, total_tokens_active, avg_mint_amount, avg_fee, avg_block_time) ==
    reporter_dict(reporter, power_trb,
                  calculate_apr_by_stake(FromInt(power_trb), total_tokens_active,
                                         avg_fee, avg_mint_amount, avg_block_time))

\* apr.py:362-376: the APR of a reporter with power and the dict appended
reporter_record(reporter, power_trb, total_tokens_active, avg_mint_amount, avg_fee, avg_block_time) ==
    reporter_dict(reporter, power_trb,
                  calculate_apr_by_stake(FromInt(power_trb), total_tokens_active,
                                         avg_mint_amount, avg_fee, avg_block_time))

RECURSIVE reporter_loop(_, _, _, _, _, _, _)
RECURSIVE reporter_pass(_, _, _, _, _, _, _, _)
RECURSIVE reporter_append(_, _, _, _, _, _, _, _)

\* apr.py:366: the record joins the list and the loop goes on, or the
\* exception leaves the function
reporter_append(active, i, reporter_aprs, rec, total_tokens_active, avg_mint_amount, avg_fee, avg_block_time) ==
    IF rec.kind = "raise" THEN rec
    ELSE reporter_loop(active, i + 1, Append(reporter_aprs, rec.val),
                       total_tokens_active, avg_mint_amount, avg_fee,
                       avg_block_time)

\* apr.py:360-361: only a reporter with power_trb > 0 gets a record
reporter_pass(active, i, reporter_aprs, power_trb, total_tokens_active, avg_mint_amount, avg_fee, avg_block_time) ==
    IF power_trb > 0
    THEN reporter_append(active, i, reporter_aprs,
                         reporter_record(active[i], power_trb,
                                         total_tokens_active, avg_mint_amount,
                                         avg_fee, avg_block_time),
                         total_tokens_active, avg_mint_amount, avg_fee,
                         avg_block_time)
    ELSE reporter_loop(active, i + 1, reporter_aprs, total_tokens_active,
                       avg_mint_amount, avg_fee, avg_block_time)

\* the loop at apr.py:357-375 over the reporters from index i on
reporter_loop(active, i, reporter_aprs, total_tokens_active, avg_mint_amount, avg_fee, avg_block_time) ==
    IF i > Len(active) THEN Value(reporter_aprs)
    ELSE reporter_pass(active, i, reporter_aprs, power_of(active[i]),
                       total_tokens_active, avg_mint_amount, avg_fee,
                       avg_block_time)

\* x put into a list sorted by power_trb, descending, behind its equals
RECURSIVE insert_by_power(_, _)
insert_by_power(sorted, x) ==
    IF sorted = <<>> THEN <<x>>
    ELSE IF Head(sorted).power_trb >= x.power_trb
    THEN <<Head(sorted)>> \o insert_by_power(Tail(sorted), x)
    ELSE <<x>> \o sorted

\* sorted ascending and then reversed: equals end up in reverse order
RECURSIVE sort_by_power_reversed(_)
sort_by_power_reversed(list) ==
    IF list = <<>> THEN <<>>
    ELSE LET rest == sort_by_power_reversed(SubSeq(list, 1, Len(list) - 1))
             x    == list[Len(list)]
             n    == Cardinality({j \in 1..Len(rest) : rest[j].power_trb > x.power_trb})
         IN  SubSeq(rest, 1, n) \o <<x>> \o SubSeq(rest, n + 1, Len(rest))

\* list.sort(key=lambda x: x["power_trb"], reverse=True): stable, equals
\* keep their order
RECURSIVE sort_by_power(_)
sort_by_power(list) ==
    IF list = <<>> THEN <<>>
    ELSE insert_by_power(sort_by_power(SubSeq(list, 1, Len(list) - 1)),
                         list[Len(list)])

\* apr.py:377-379
sort_and_return(reporter_aprs) ==
    IF reporter_aprs.kind = "raise" THEN reporter_aprs
    ELSE Value(sort_by_power(reporter_aprs.val))

calculate_reporter_aprs(reporters_data, total_tokens_active, avg_mint_amount, avg_fee, avg_block_time) ==
    sort_and_return(reporter_loop(reporters_data.active, 1, <<>>,
                                  total_tokens_active, avg_mint_amount, avg_fee,
                                  avg_block_time))

Reporter(address, power, moniker, commission_rate) ==
    [address |-> address, power |-> power, moniker |-> moniker,
     commission_rate |-> commission_rate]

ReporterPool ==
    { Reporter("tellor1qma4ngrq2vqz6j82u548lder3ue6m25agqv9rt", "2000000", "",
               "0.100000000000000000"),
      Reporter("addr1", "1000000", "test1", "0.1"),
      Reporter("addr2", "2000000", "test2", "0.05"),
      Reporter("addr3", "0", "idle", ""),
      Reporter("addr4", "-5", "", "0.25"),
      Reporter("addr5", "", "nopower", "0"),
      Reporter("addr6", "007", "bond", "1") }

MaxReporters == 3

RECURSIVE SeqsUpTo(_, _)
SeqsUpTo(S, n) ==
    IF n = 0 THEN {<<>>}
    ELSE LET shorter == SeqsUpTo(S, n - 1)
         IN  shorter \cup {Append(q, x) : q \in shorter, x \in S}

\* the network of tests/test_apr.py:99-102, and one with no active stake
ReporterNetworks == {<<10000, 1000000, 100000, 6>>, <<0, 1000000, 100000, 6>>}

ReporterArgs ==
    {[reporters_data |-> [active |-> active],
      total |-> FMul(FromInt(n[1]), FromInt(Million)),
      mint  |-> FromInt(n[2]),
      fee   |-> FromInt(n[3]),
      bt    |-> FromInt(n[4])] :
        active \in SeqsUpTo(ReporterPool, MaxReporters), n \in ReporterNetworks}

InitReporters ==
    /\ op = "calculate_reporter_aprs"
    /\ args \in ReporterArgs
    /\ loc = NoLocals
    /\ pc = "call"
    /\ ret = NoResult

CallReporterAprs ==
    /\ op = "calculate_reporter_aprs"
    /\ pc = "call"
    /\ ret' = calculate_reporter_aprs(args.reporters_data, args.total, args.mint,
                                      args.fee, args.bt)
    /\ pc' = "done"
    /\ UNCHANGED <<op, args, loc>>

NextReporters == CallReporterAprs

SpecReporters == InitReporters /\ [][NextReporters]_vars

ReportersReturned ==
    op = "calculate_reporter_aprs" /\ pc = "done" /\ ret.kind = "value"

\* how many records of the returned list are for this address and power
C9_Records(address, power) ==
    Cardinality({j \in 1..Len(ret.val) :
                    ret.val[j].address = address /\ ret.val[j].power_trb = power})

\* how many reporters of the input have this address and power
C9_Reporters(address, power) ==
    LET active == args.reporters_data.active
    IN  Cardinality({i \in 1..Len(active) :
                        active[i].address = address /\ power_of(active[i]) = power})

\* C9: calculate_reporter_aprs returns exactly one record for each active
\* reporter with power > 0 and none for a reporter with power <= 0; a record
\* keeps the reporter's address and power, and its apr is
\* calculate_apr_by_stake(power, total_active_stake, avg_mint, avg_fee,
\* avg_block_time).
C9_OneRecordPerPoweredReporter ==
    ReportersReturned =>
        LET active == args.reporters_data.active
        IN  /\ \A i \in 1..Len(active) :
                  C9_Records(active[i].address, power_of(active[i]))
                  = IF power_of(active[i]) > 0
                    THEN C9_Reporters(active[i].address, power_of(active[i]))
                    ELSE 0
            /\ \A j \in 1..Len(ret.val) :
                  /\ ret.val[j].power_trb > 0
                  /\ C9_Reporters(ret.val[j].address, ret.val[j].power_trb) > 0
                  /\ Value(ret.val[j].apr)
                     = calculate_apr_by_stake(FromInt(ret.val[j].power_trb),
                                              args.total, args.mint, args.fee,
                                              args.bt)

\* reporters with and without power went in, and records came out
C9_Witness ==
    /\ ReportersReturned
    /\ \E i \in 1..Len(args.reporters_data.active) :
          power_of(args.reporters_data.active[i]) = 0
    /\ Len(ret.val) >= 2
    /\ Len(ret.val) < Len(args.reporters_data.active)

\* the addresses of the reporters of power p, in the order of the input
C10_InputOrder(p) ==
    LET with == SelectSeq(args.reporters_data.active, LAMBDA r : power_of(r) = p)
    IN  [i \in 1..Len(with) |-> with[i].address]

\* the addresses of the records of power p, in the order of the result
C10_ResultOrder(p) ==
    LET with == SelectSeq(ret.val, LAMBDA x : x.power_trb = p)
    IN  [i \in 1..Len(with) |-> with[i].address]

\* C10: the returned list is in descending order of power, and reporters of
\* equal power keep the relative order they had in the input (stable sort).
C10_DescendingStable ==
    ReportersReturned =>
        /\ \A j \in 1..Len(ret.val) : \A k \in (j + 1)..Len(ret.val) :
              ret.val[j].power_trb >= ret.val[k].power_trb
        /\ \A j \in 1..Len(ret.val) :
              C10_ResultOrder(ret.val[j].power_trb)
              = C10_InputOrder(ret.val[j].power_trb)

\* two reporters of equal power and different address behind a reporter of
\* less power in the input
C10_Witness ==
    /\ ReportersReturned
    /\ \E j \in 1..Len(ret.val) : \E k \in (j + 1)..Len(ret.val) :
          /\ ret.val[j].power_trb = ret.val[k].power_trb
          /\ ret.val[j].address # ret.val[k].address
    /\ \E i \in 1..Len(args.reporters_data.active) :
          \E j \in (i + 1)..Len(args.reporters_data.active) :
             /\ power_of(args.reporters_data.active[i]) > 0
             /\ power_of(args.reporters_data.active[i])
                < power_of(args.reporters_data.active[j])

(***************************************************************************)
(* apr.py: calculate_apr_avgs.  A record of reporter_aprs is read for its  *)
(* "apr" (a float) and its "power_trb" (an int).                           *)
(***************************************************************************)
\* mutant of avgs_loop: every record weighs 1, whatever its power
RECURSIVE avgs_loop_unweighted(_, _, _, _)
avgs_loop_unweighted(reporter_aprs, i, total_weighted_apr, total_power) ==
    IF i > Len(reporter_aprs)
    THEN [total_weighted_apr |-> total_weighted_apr, total_power |-> total_power]
    ELSE avgs_loop_unweighted(reporter_aprs, i + 1,
                              FAdd(total_weighted_apr, reporter_aprs[i].apr),
                              total_power + 1)

\* apr.py:541-546: the sums of the loop over the records from index i on
RECURSIVE avgs_loop(_, _, _, _)
avgs_loop(reporter_aprs, i, total_weighted_apr, total_power) ==
    IF i > Len(reporter_aprs)
    THEN [total_weighted_apr |-> total_weighted_apr, total_power |-> total_power]
    ELSE avgs_loop(reporter_aprs, i + 1,
                   FAdd(total_weighted_apr,
                        FMul(reporter_aprs[i].apr, FromInt(reporter_aprs[i].power_trb))),
                   total_power + reporter_aprs[i].power_trb)

\* x put into an ascending list behind its equals
RECURSIVE insert_ascending(_, _)
insert_ascending(sorted, x) ==
    IF sorted = <<>> THEN <<x>>
    ELSE IF FLe(Head(sorted), x)
    THEN <<Head(sorted)>> \o insert_ascending(Tail(sorted), x)
    ELSE <<x>> \o sorted

\* apr_values.sort() on the APRs of the records, in the order of the list
RECURSIVE sorted_apr_values(_, _)
sorted_apr_values(reporter_aprs, n) ==
    IF n = 0 THEN <<>>
    ELSE insert_ascending(sorted_apr_values(reporter_aprs, n - 1), reporter_aprs[n].apr)

\* mutant of median_of: the top of the sorted list taken for its middle
median_of_top(apr_values, n) ==
    IF n % 2 = 0
    THEN FDiv(FAdd(apr_values[n - 1], apr_values[n]), Two)
    ELSE apr_values[n]

\* apr.py:555-559 on the sorted list (indices from 1)
median_of(apr_values, n) ==
    IF n % 2 = 0
    THEN FDiv(FAdd(apr_values[n \div 2], apr_values[n \div 2 + 1]), Two)
    ELSE apr_values[n \div 2 + 1]

\* mutant of avgs_return: the weighted sum is divided by the number of records
avgs_return_by_count(reporter_aprs, sums) ==
    IF sums.total_power = 0 THEN Value(<<FZero(0), FZero(0)>>)
    ELSE Value(<<FDiv(sums.total_weighted_apr, FromInt(Len(reporter_aprs))),
                 median_of(sorted_apr_values(reporter_aprs, Len(reporter_aprs)),
                           Len(reporter_aprs))>>)

\* mutant of avgs_return: no test of the total power before the division
avgs_return_unguarded(reporter_aprs, sums) ==
    IF sums.total_power = 0 THEN Raise("ZeroDivisionError")
    ELSE Value(<<FDiv(sums.total_weighted_apr, FromInt(sums.total_power)),
                 median_of(sorted_apr_values(reporter_aprs, Len(reporter_aprs)),
                           Len(reporter_aprs))>>)

\* apr.py:548-561
avgs_return(reporter_aprs, sums) ==
    IF sums.total_power = 0 THEN Value(<<FZero(0), FZero(0)>>)
    ELSE Value(<<FDiv(sums.total_weighted_apr, FromInt(sums.total_power)),
                 median_of(sorted_apr_values(reporter_aprs, Len(reporter_aprs)),
                           Len(reporter_aprs))>>)

calculate_apr_avgs(reporter_aprs) ==
    IF reporter_aprs = <<>> THEN Value(<<FZero(0), FZero(0)>>)
    ELSE avgs_return(reporter_aprs, avgs_loop(reporter_aprs, 1, FZero(0), 0))

\* a record of the list calculate_reporter_aprs returns, as far as it is read
AvgRecord(t) == [apr |-> FDiv(FromInt(t[1]), FromInt(t[2])), power_trb |-> t[3]]

\* <<a, b, power>> for the APR a / b: the two reporters of the example (10 %
\* on 1,000,000 and 20 % on 2,000,000), one of tests/test_apr.py:49-53, a
\* loss, two reporters of the APR 0.1 and two records without power
AvgTuples ==
    { <<10, 1, 1000000>>, <<20, 1, 2000000>>, <<87, 10, 500000>>,
      <<-5, 1, 1000000>>, <<1, 10, 1>>, <<1, 10, 2>>,
      <<10, 1, 0>>, <<-5, 1, 0>> }

AvgPool == {AvgRecord(t) : t \in AvgTuples}

MaxRecords == 3

AvgArgs == {[reporter_aprs |-> list] : list \in SeqsUpTo(AvgPool, MaxRecords)}

InitAvgs ==
    /\ op = "calculate_apr_avgs"
    /\ args \in AvgArgs
    /\ loc = NoLocals
    /\ pc = "call"
    /\ ret = NoResult

CallAprAvgs ==
    /\ op = "calculate_apr_avgs"
    /\ pc = "call"
    /\ ret' = calculate_apr_avgs(args.reporter_aprs)
    /\ pc' = "done"
    /\ UNCHANGED <<op, args, loc>>

NextAvgs == CallAprAvgs

SpecAvgs == InitAvgs /\ [][NextAvgs]_vars

AvgsDone == op = "calculate_apr_avgs" /\ pc = "done"

AvgsReturned == AvgsDone /\ ret.kind = "value"

\* the sum of apr * power_trb over the first n records, in list order
RECURSIVE AvgWeightedSum(_, _)
AvgWeightedSum(list, n) ==
    IF n = 0 THEN FZero(0)
    ELSE FAdd(AvgWeightedSum(list, n - 1), FMul(list[n].apr, FromInt(list[n].power_trb)))

\* the sum of power_trb over the first n records
RECURSIVE AvgTotalPower(_, _)
AvgTotalPower(list, n) ==
    IF n = 0 THEN 0 ELSE AvgTotalPower(list, n - 1) + list[n].power_trb

\* a non-empty list of positive total power went in and a pair came out
AvgsOfPowered ==
    /\ AvgsReturned
    /\ args.reporter_aprs # <<>>
    /\ AvgTotalPower(args.reporter_aprs, Len(args.reporter_aprs)) > 0

\* the list of the example: 10 % on 1,000,000 and 20 % on 2,000,000
C11_Example == <<AvgRecord(<<10, 1, 1000000>>), AvgRecord(<<20, 1, 2000000>>)>>

\* C11: for a non-empty list of positive total power the first component is
\* sum(apr_i * power_i) / sum(power_i); the example list gives 50/3 as the
\* weighted average and 15 as the median.
C11_WeightedMean ==
    AvgsOfPowered =>
        /\ ret.val[1] = FDiv(AvgWeightedSum(args.reporter_aprs, Len(args.reporter_aprs)),
                             FromInt(AvgTotalPower(args.reporter_aprs, Len(args.reporter_aprs))))
        /\ args.reporter_aprs = C11_Example
           => ret.val = <<FDiv(FromInt(50), FromInt(3)), FromInt(15)>>

\* the example list was averaged
C11_Witness == AvgsOfPowered /\ args.reporter_aprs = C11_Example

\* C12: calculate_apr_avgs returns (0.0, 0.0) for the empty list and for a
\* non-empty list whose powers sum to 0, and raises in neither case.
C12_ZeroForNoPower ==
    (AvgsDone /\ AvgTotalPower(args.reporter_aprs, Len(args.reporter_aprs)) = 0)
        => ret = Value(<<FZero(0), FZero(0)>>)

\* a list of two records without power was averaged
C12_Witness ==
    /\ AvgsDone
    /\ Len(args.reporter_aprs) = 2
    /\ AvgTotalPower(args.reporter_aprs, 2) = 0
    /\ ret.kind = "value"

\* the k-th smallest of the APRs of the list: fewer than k are below it and
\* at least k are not above it
C13_Kth(list, k) ==
    LET v == CHOOSE i \in 1..Len(list) :
                 /\ Cardinality({j \in 1..Len(list) : FLt(list[j].apr, list[i].apr)}) < k
                 /\ Cardinality({j \in 1..Len(list) : FLe(list[j].apr, list[i].apr)}) >= k
    IN  list[v].apr

\* the standard median of the APRs of the list
C13_Median(list) ==
    IF Len(list) % 2 = 1 THEN C13_Kth(list, (Len(list) + 1) \div 2)
    ELSE FDiv(FAdd(C13_Kth(list, Len(list) \div 2), C13_Kth(list, Len(list) \div 2 + 1)), Two)

\* the list with every power replaced by p
C13_WithPower(list, p) == [i \in 1..Len(list) |-> [apr |-> list[i].apr, power_trb |-> p]]

\* C13: the second component is the standard median of the APRs (the middle
\* value of the ascending order, or the mean of the two middle values), and
\* other powers of positive total give the same median.
C13_StandardMedian ==
    AvgsOfPowered =>
        /\ ret.val[2] = C13_Median(args.reporter_aprs)
        /\ \A p \in {1, 3000000} :
              calculate_apr_avgs(C13_WithPower(args.reporter_aprs, p)).val[2] = ret.val[2]

\* an even and an odd count, the APRs not in ascending order in the list
C13_Unsorted(list) == \E i \in 1..(Len(list) - 1) : FGt(list[i].apr, list[i + 1].apr)

C13_Witness ==
    /\ AvgsOfPowered
    /\ Len(args.reporter_aprs) = 2
    /\ C13_Unsorted(args.reporter_aprs)
    /\ ~FEq(ret.val[2], args.reporter_aprs[1].apr)
    /\ ~FEq(ret.val[2], args.reporter_aprs[2].apr)

\* the smallest and the largest APR of the list, and the largest magnitude
C14_Min(list) == list[CHOOSE i \in 1..Len(list) : \A j \in 1..Len(list) : FLe(list[i].apr, list[j].apr)].apr

C14_Max(list) == list[CHOOSE i \in 1..Len(list) : \A j \in 1..Len(list) : FGe(list[i].apr, list[j].apr)].apr

C14_MaxAbs(list) == IF FGe(FAbs(C14_Min(list)), FAbs(C14_Max(list))) THEN FAbs(C14_Min(list)) ELSE FAbs(C14_Max(list))

\* C14 as claimed: for every non-empty list of positive total power the
\* weighted average lies between the smallest and the largest APR.
C14_WithinMinMax ==
    AvgsOfPowered =>
        /\ FLe(C14_Min(args.reporter_aprs), ret.val[1])
        /\ FLe(ret.val[1], C14_Max(args.reporter_aprs))

\* 2^-53, half the distance from 1 to the next double
C14_HalfUlp == FMul(FDiv(One, FromInt(2 ^ 26)), FDiv(One, FromInt(2 ^ 27)))

\* the rounding allowance for n records of non-negative power: n + 3
\* roundings at most on the way of a term into the result, each of 2^-53 of
\* the largest magnitude among the APRs
C14_Allowance(list) == FMul(FMul(FromInt(Len(list) + 3), C14_HalfUlp), C14_MaxAbs(list))

\* C14 as amended: the weighted average lies between the smallest and the
\* largest APR up to the rounding of the sums and the division, that is
\* within (n + 3) * 2^-53 * max |apr_i| of that interval.
C14_WithinMinMaxUpToRounding ==
    AvgsOfPowered =>
        /\ FLe(FSub(C14_Min(args.reporter_aprs), C14_Allowance(args.reporter_aprs)), ret.val[1])
        /\ FLe(ret.val[1], FAdd(C14_Max(args.reporter_aprs), C14_Allowance(args.reporter_aprs)))

\* records of different APR and power were averaged, the average strictly
\* between the smallest and the largest APR
C14_Witness ==
    /\ AvgsOfPowered
    /\ Len(args.reporter_aprs) = 3
    /\ FLt(C14_Min(args.reporter_aprs), ret.val[1])
    /\ FLt(ret.val[1], C14_Max(args.reporter_aprs))
    /\ Negative(C14_Min(args.reporter_aprs))

(***************************************************************************)
(* The APRs of calculate_apr_by_stake at different stakes of one network   *)
(***************************************************************************)
\* the call was made with stake, total stake, mint and block time above 0
AprOfPositive ==
    /\ AprDone
    /\ Positive(args.stake) /\ Positive(args.total)
    /\ Positive(args.mint) /\ Positive(args.bt)

\* the APR at another stake of the same network
C17_AprAt(stake) == apr_value(stake, args.total, args.mint, args.fee, args.bt)

\* C17 as claimed: for stake, total stake and block time above 0 and
\* avg_mint > 0, avg_fee and the total held fixed, stake1 < stake2 implies
\* apr(stake1) >= apr(stake2).
C17_DecreasingInStake ==
    AprOfPositive =>
        \A stake2 \in AprStakes :
            FLt(args.stake, stake2) => FGe(ret.val, C17_AprAt(stake2))

\* the reward term of the APR, avg_mint / total * blocks_per_year * 100, which
\* does not depend on the stake
C17_RewardTerm ==
    FMul(FMul(FDiv(args.mint, args.total), FDiv(FromInt(SecondsPerYear), args.bt)), Hundred)

\* the fee term of the APR at a stake, (avg_fee / 2) * blocks_per_year / stake * 100
C17_FeeTerm(stake) ==
    FMul(FDiv(FMul(FDiv(args.fee, Two), FDiv(FromInt(SecondsPerYear), args.bt)), stake), Hundred)

\* 2^-49 and 2^-48 of the two terms at the stake of the call: the rounding
\* of two APRs, and twice as much
C17_Rounding(k) ==
    FMul(FDiv(One, FromInt(2 ^ k)),
         FMul(FDiv(One, FromInt(2 ^ 24)), FAdd(C17_RewardTerm, C17_FeeTerm(args.stake))))

\* C17 as amended: with avg_fee >= 0 the APR does not fall as the stake
\* rises: stake1 < stake2 implies apr(stake1) <= apr(stake2) up to rounding
\* (2^-49 of reward term plus fee term), and apr(stake1) < apr(stake2) where
\* the fee terms at the two stakes differ by more than 2^-48 of that sum.
C17_RisingInStake ==
    (AprOfPositive /\ ~Negative(args.fee)) =>
        \A stake2 \in AprStakes :
            FLt(args.stake, stake2) =>
                /\ FLe(ret.val, FAdd(C17_AprAt(stake2), C17_Rounding(25)))
                /\ FGt(FSub(C17_FeeTerm(args.stake), C17_FeeTerm(stake2)), C17_Rounding(24))
                   => FLt(ret.val, C17_AprAt(stake2))

\* a fee above 0, and a larger stake at which the APR is higher
C17_Witness ==
    /\ AprOfPositive /\ Positive(args.fee)
    /\ \E stake2 \in AprStakes :
          FLt(args.stake, stake2) /\ FLt(ret.val, C17_AprAt(stake2))

(***************************************************************************)
(* scenarios.py: generate_stake_amount_scenarios.  The numpy arrays are    *)
(* sequences of doubles.                                                   *)
(***************************************************************************)
CurvePoints == 1000
CurveStart == 100
CurveStop == 2000000

\* numpy.linspace(100, 2000000, 1000): step = (stop - start) / (num - 1)
CurveStep == FDiv(FSub(FromInt(CurveStop), FromInt(CurveStart)), FromInt(CurvePoints - 1))

\* point i (from 1) of the linspace: arange(num)[i - 1] * step + start, the
\* last point is stop
curve_point(i) ==
    IF i = CurvePoints THEN FromInt(CurveStop)
    ELSE FAdd(FMul(FromInt(i - 1), CurveStep), FromInt(CurveStart))

\* scenarios.py:64-66
stake_amounts_trb == [i \in 1..CurvePoints |-> curve_point(i)]

\* scenarios.py:67: stake_amounts_trb * 1e6
stake_amounts == [i \in 1..CurvePoints |-> FMul(stake_amounts_trb[i], FromInt(Million))]

\* reports_per_block = 0.5
Half == FDiv(One, Two)

\* mutant of scenario_totals: a report, and its fee, in every block
scenario_totals_full_fee(avg_mint_amount, avg_fee, blocks_per_year) ==
    [i |-> 1,
     total_mint_per_year |-> FMul(FMul(avg_mint_amount, FromInt(Million)), blocks_per_year),
     total_fees_per_year |-> FMul(FMul(avg_fee, FromInt(Million)), blocks_per_year),
     weighted_avg_aprs |-> <<>>]

\* scenarios.py:73-84 with blocks_per_year worked out: the locals the loop reads
scenario_totals(avg_mint_amount, avg_fee, blocks_per_year) ==
    [i |-> 1,
     total_mint_per_year |-> FMul(FMul(avg_mint_amount, FromInt(Million)), blocks_per_year),
     total_fees_per_year |-> FMul(FMul(avg_fee, FromInt(Million)), FMul(blocks_per_year, Half)),
     weighted_avg_aprs |-> <<>>]

\* scenarios.py:70-84: the int / float division by avg_block_time raises
scenario_locals(avg_mint_amount, avg_fee, avg_block_time) ==
    IF FIsZero(avg_block_time) THEN Raise("ZeroDivisionError")
    ELSE Value(scenario_totals(avg_mint_amount, avg_fee,
                               FDiv(FromInt(SecondsPerYear), avg_block_time)))

\* mutant of scenario_apr: the fees are not taken off the mint
scenario_apr_gross(total_mint_per_year, total_fees_per_year, total_stake) ==
    FMul(FDiv(total_mint_per_year, total_stake), Hundred)

\* mutant of scenario_apr: the APR is the net reward per unit of stake, as a
\* fraction and not in percent, taken off 100
scenario_apr_rising(total_mint_per_year, total_fees_per_year, total_stake) ==
    FSub(Hundred, FDiv(FSub(total_mint_per_year, total_fees_per_year), total_stake))

\* scenarios.py:92-93
scenario_apr(total_mint_per_year, total_fees_per_year, total_stake) ==
    FMul(FDiv(FSub(total_mint_per_year, total_fees_per_year), total_stake), Hundred)

\* scenarios.py:89-94: one pass of the loop over stake_amounts
scenario_iteration(l) ==
    [l EXCEPT !.i = l.i + 1,
              !.weighted_avg_aprs = Append(l.weighted_avg_aprs,
                  scenario_apr(l.total_mint_per_year, l.total_fees_per_year, stake_amounts[l.i]))]

\* scenarios.py:96-102
scenario_results(weighted_avg_aprs) ==
    [stake_amounts |-> stake_amounts,
     stake_amounts_trb |-> stake_amounts_trb,
     weighted_avg_aprs |-> weighted_avg_aprs]

(***************************************************************************)
(* numpy.interp(x, xp, fp) for one x, xp ascending, all values finite      *)
(***************************************************************************)
\* the bisection of numpy's binary search: the number of points of arr not
\* above key, between imin and imax
RECURSIVE interp_bisect(_, _, _, _)
interp_bisect(key, arr, imin, imax) ==
    IF imin >= imax THEN imin
    ELSE IF FGe(key, arr[imin + (imax - imin) \div 2 + 1])
    THEN interp_bisect(key, arr, imin + (imax - imin) \div 2 + 1, imax)
    ELSE interp_bisect(key, arr, imin, imin + (imax - imin) \div 2)

\* mutant of interp_between: a point of xp gives the sample after its own
interp_between_next(x, xp, fp, j) ==
    IF FEq(xp[j], x) THEN fp[j + 1]
    ELSE FAdd(FMul(FDiv(FSub(fp[j + 1], fp[j]), FSub(xp[j + 1], xp[j])),
                   FSub(x, xp[j])),
              fp[j])

\* x at or above point j of xp and below point j + 1: the line through the
\* two samples, slope * (x - xp[j]) + fp[j]; a point of xp gives its sample
interp_between(x, xp, fp, j) ==
    IF FEq(xp[j], x) THEN fp[j]
    ELSE FAdd(FMul(FDiv(FSub(fp[j + 1], fp[j]), FSub(xp[j + 1], xp[j])),
                   FSub(x, xp[j])),
              fp[j])

\* mutant of interp: the line of the last two samples goes on above the last
interp_unclamped(x, xp, fp) ==
    IF Len(xp) = 1 THEN fp[1]
    ELSE IF FGt(x, xp[Len(xp)])
    THEN interp_between(x, xp, fp, Len(xp) - 1)
    ELSE IF FLt(x, xp[1]) THEN fp[1]
    ELSE IF FEq(x, xp[Len(xp)]) THEN fp[Len(xp)]
    ELSE interp_between(x, xp, fp, interp_bisect(x, xp, 0, Len(xp)))

\* left and right default to the first and the last sample
interp(x, xp, fp) ==
    IF Len(xp) = 1 THEN fp[1]
    ELSE IF FGt(x, xp[Len(xp)]) THEN fp[Len(xp)]
    ELSE IF FLt(x, xp[1]) THEN fp[1]
    ELSE IF FEq(x, xp[Len(xp)]) THEN fp[Len(xp)]
    ELSE interp_between(x, xp, fp, interp_bisect(x, xp, 0, Len(xp)))

(***************************************************************************)
(* format_targets_for_display_with_apr.  A dict is the sequence of its     *)
(* <<key, value>> pairs in insertion order.                                *)
(***************************************************************************)
\* the decimal digits of a natural number, none for zero
RECURSIVE BDecimal(_)
BDecimal(n) ==
    IF n = <<>> THEN ""
    ELSE BDecimal(BDivSmall(n, 10).q) \o DigitChars[BDivSmall(n, 10).r + 1]

\* |x| * scale rounded to a natural number, a tie to the even one: the
\* digits of a fixed-point format are those of the exact value of the double
fixed_units(x, scale) ==
    IF FIsZero(x) THEN <<>>
    ELSE IF x.e >= 0 THEN BShl(BMulSmall(x.m, scale), x.e)
    ELSE LET n == BMulSmall(x.m, scale)
             q == BShr(n, -x.e)
             c == BCmp(BLow(n, -x.e), BShl(<<1>>, -x.e - 1))
         IN  IF c > 0 \/ (c = 0 /\ BIsOdd(q)) THEN BAdd(q, <<1>>) ELSE q

\* the thousands separators of the "," option
RECURSIVE thousands(_)
thousands(str) ==
    IF Len(str) <= 3 THEN str
    ELSE thousands(SubSeq(str, 1, Len(str) - 3)) \o ","
         \o SubSeq(str, Len(str) - 2, Len(str))

format_whole(str, comma) ==
    IF str = "" THEN "0" ELSE IF comma THEN thousands(str) ELSE str

\* format(x, ".0f"), format(x, ".1f") and, with comma, format(x, ",.0f")
format_f(x, places, comma) ==
    LET u == fixed_units(x, IF places = 0 THEN 1 ELSE 10)
    IN  (IF x.s = 1 THEN "-" ELSE "")
        \o (IF places = 0 THEN format_whole(BDecimal(u), comma)
            ELSE format_whole(BDecimal(BDivSmall(u, 10).q), comma)
                 \o "." \o DigitChars[BDivSmall(u, 10).r + 1])

\* d[k] = v: a new key goes to the end, a key of d keeps its place
dict_set(d, k, v) ==
    IF \E i \in 1..Len(d) : d[i][1] = k
    THEN [i \in 1..Len(d) |-> IF d[i][1] = k THEN <<k, v>> ELSE d[i]]
    ELSE Append(d, <<k, v>>)

\* the characters of the labels in the order of their code points
CodePoints == " %(),-.0123456789ACMPRT"

ord(c) == CHOOSE i \in 1..Len(CodePoints) : SubSeq(CodePoints, i, i) = c

\* a < b for strings
RECURSIVE str_lt(_, _)
str_lt(a, b) ==
    IF Len(b) = 0 THEN FALSE
    ELSE IF Len(a) = 0 THEN TRUE
    ELSE IF SubSeq(a, 1, 1) = SubSeq(b, 1, 1)
    THEN str_lt(SubSeq(a, 2, Len(a)), SubSeq(b, 2, Len(b)))
    ELSE ord(SubSeq(a, 1, 1)) < ord(SubSeq(b, 1, 1))

\* item goes behind every item of the descending-sorted items whose key is
\* not below its own
RECURSIVE insert_by_label(_, _)
insert_by_label(items, item) ==
    IF items = <<>> THEN <<item>>
    ELSE IF str_lt(items[1][1], item[1]) THEN <<item>> \o items
    ELSE <<items[1]>> \o insert_by_label(Tail(items), item)

\* scenarios.py:293: sorted(targets.items(), key=lambda x: x[0], reverse=True)
RECURSIVE sorted_targets(_, _)
sorted_targets(targets, n) ==
    IF n = 0 THEN <<>>
    ELSE insert_by_label(sorted_targets(targets, n - 1), targets[n])

\* scenarios.py:299-307
stake_str(stake_trb) ==
    IF FGe(stake_trb, FromInt(Million))
    THEN format_f(FDiv(stake_trb, FromInt(Million)), 1, FALSE) \o "M TRB"
    ELSE IF FGe(stake_trb, FromInt(1000))
    THEN format_f(FDiv(stake_trb, FromInt(1000)), 0, FALSE) \o "k TRB"
    ELSE format_f(stake_trb, 0, TRUE) \o " TRB"

\* scenarios.py:295-309: the loop over the first n of the sorted targets
RECURSIVE add_targets(_, _, _)
add_targets(display_dict, items, n) ==
    IF n = 0 THEN display_dict
    ELSE dict_set(add_targets(display_dict, items, n - 1),
                  items[n][1], stake_str(items[n][2].stake_trb))

\* scenarios.py:273-279: the APR at the current stake, None where the data
\* is not valid and current_apr is never assigned
current_apr_of(current_stake_trb, stakes_trb, aprs) ==
    IF Len(stakes_trb) > 0 /\ Len(aprs) > 0
       /\ Len(stakes_trb) = Len(aprs)
    THEN interp(current_stake_trb, stakes_trb, aprs)
    ELSE None

\* scenarios.py:262-290: the two entries of the current stake
current_entries(current_stake_trb, current_apr) ==
    IF current_apr = None
    THEN <<<<"Current Network Stake", format_f(current_stake_trb, 0, TRUE) \o " TRB">>,
           <<"Current APR", "Unable to calculate">>>>
    ELSE dict_set(<<<<"Current Network Stake", format_f(current_stake_trb, 0, TRUE) \o " TRB">>>>,
                  format_f(current_apr, 1, FALSE) \o "% APR (Current)",
                  format_f(current_stake_trb, 0, TRUE) \o " TRB")

\* the locals of format_targets_for_display_with_apr at its return
format_locals(targets, current_apr, entries) ==
    [current_apr |-> current_apr,
     display_dict |-> add_targets(entries, sorted_targets(targets, Len(targets)), Len(targets))]

format_targets_for_display_with_apr(targets, current_total_stake, stake_results) ==
    format_locals(targets,
        current_apr_of(current_total_stake, stake_results.stake_amounts_trb,
                       stake_results.weighted_avg_aprs),
        current_entries(current_total_stake,
            current_apr_of(current_total_stake, stake_results.stake_amounts_trb,
                           stake_results.weighted_avg_aprs)))

\* scenarios.py:135-144
total_stake_levels_trb ==
    <<50000, 100000, 200000, 500000, 1000000, 2000000, 5000000, 10000000>>

(***************************************************************************)
(* scenarios.py: find_apr_targets.  The dict it returns is a sequence of   *)
(* <<label, entry>> pairs in the order of insertion.  stake_amounts_trb,   *)
(* aprs, target_aprs and total_tokens_active are not read by the function. *)
(***************************************************************************)
\* scenarios.py:117-132: blocks_per_year and the two totals of the year, the
\* division by avg_block_time raising for 0
target_locals(avg_mint_amount, avg_fee, avg_block_time) ==
    IF FIsZero(avg_block_time) THEN Raise("ZeroDivisionError")
    ELSE LET blocks_per_year == FDiv(FromInt(SecondsPerYear), avg_block_time)
         IN  Value([i |-> 1,
                    total_mint_per_year |->
                        FMul(FMul(avg_mint_amount, FromInt(Million)), blocks_per_year),
                    total_fees_per_year |->
                        FMul(FMul(avg_fee, FromInt(Million)), FMul(blocks_per_year, Half)),
                    targets |-> <<>>])

\* scenarios.py:147, 153-154: the APR at a total stake of total_stake_trb
target_apr(total_mint_per_year, total_fees_per_year, total_stake_trb) ==
    FMul(FDiv(FSub(total_mint_per_year, total_fees_per_year),
              FMul(FromInt(total_stake_trb), FromInt(Million))),
         Hundred)

\* mutant of target_qualifies: no cap at 1000%
target_qualifies_uncapped(apr) == FGt(apr, FZero(0))

\* scenarios.py:157
target_qualifies(apr) == FGt(apr, FZero(0)) /\ FLt(apr, FromInt(1000))

\* scenarios.py:158-161: the entry under its label; stake_trb is the int of
\* the list, held as the double it equals
target_set(targets, total_stake_trb, apr) ==
    dict_set(targets, format_f(apr, 1, FALSE) \o "% APR",
             [stake_trb |-> FromInt(total_stake_trb), actual_apr |-> apr])

\* scenarios.py:146-161: one pass of the loop over total_stake_levels_trb
target_pass(l, apr) ==
    [l EXCEPT !.i = l.i + 1,
              !.targets = IF target_qualifies(apr)
                          THEN target_set(l.targets, total_stake_levels_trb[l.i], apr)
                          ELSE l.targets]

target_iteration(l) ==
    target_pass(l, target_apr(l.total_mint_per_year, l.total_fees_per_year,
                              total_stake_levels_trb[l.i]))

\* scenarios.py:146-163: the passes of the loop that are left, and the dict
\* returned after the last
RECURSIVE targets_from(_)
targets_from(l) ==
    IF l.i > Len(total_stake_levels_trb) THEN l.targets ELSE targets_from(target_iteration(l))

targets_found(l) == IF l.kind = "raise" THEN l ELSE Value(targets_from(l.val))

\* scenarios.py:105-163; stake_amounts_trb, aprs, target_aprs and
\* total_tokens_active are not read
find_apr_targets(avg_mint_amount, avg_fee, avg_block_time) ==
    targets_found(target_locals(avg_mint_amount, avg_fee, avg_block_time))

\* scenarios.py:89-94: the list the loop over stake_amounts builds
scenario_curve(l) ==
    [i \in 1..CurvePoints |->
        scenario_apr(l.total_mint_per_year, l.total_fees_per_year, stake_amounts[i])]

scenario_returned(l) ==
    IF l.kind = "raise" THEN l ELSE Value(scenario_results(scenario_curve(l.val)))

\* scenarios.py:58-102
generate_stake_amount_scenarios(avg_mint_amount, avg_fee, avg_block_time) ==
    scenario_returned(scenario_locals(avg_mint_amount, avg_fee, avg_block_time))

\* main.py:579-584 (checker.py:540-547): the call of
\* format_targets_for_display_with_apr in main, on the curve and the targets
\* run_scenarios_analysis returned (scenarios.py:247-254, 192-200, 238) and
\* with total_tokens_active as the current stake; an exception of
\* run_scenarios_analysis ends main
main_format_call(stake_results, targets, total_tokens_active) ==
    IF stake_results.kind = "raise" THEN [op |-> "main", args |-> <<>>, pc |-> "done", ret |-> stake_results]
    ELSE IF targets.kind = "raise" THEN [op |-> "main", args |-> <<>>, pc |-> "done", ret |-> targets]
    ELSE [op |-> "format_targets_for_display_with_apr",
          args |-> [targets |-> targets.val, current_total_stake |-> total_tokens_active,
                    stake_results |-> stake_results.val],
          pc |-> "call", ret |-> NoResult]

(***************************************************************************)
(* The scenario run of main: generate_stake_amount_scenarios, then         *)
(* format_targets_for_display_with_apr on its result; and calls of         *)
(* format_targets_for_display_with_apr on curves given as lists.           *)
(***************************************************************************)
\* the double n / d * k of a triple <<n, d, k>> of integers, and the doubles
\* of a sequence of triples
Num(t) == FMul(FDiv(FromInt(t[1]), FromInt(t[2])), FromInt(t[3]))

NumSeq(ts) == [i \in 1..Len(ts) |-> Num(ts[i])]

ScenarioRecord(f) ==
    [base_total_stake |-> f[1], avg_mint_amount |-> f[2], avg_fee |-> f[3],
     avg_block_time |-> f[4]]

\* a network: base_total_stake in loya, mint, fee and block time
ScenarioArg(t) == ScenarioRecord(NumSeq(t))

ScenarioNetworks ==
    {<<<<10000, 1, Million>>, <<1000000, 1, 1>>, <<5, 1, 1>>, <<6, 1, 1>>>>,
     <<<<20224, 1, Million>>, <<147, 1000, 1>>, <<3, 10000, 1>>, <<19, 10, 1>>>>,
     <<<<1500000, 1, Million>>, <<147, 1000, 1>>, <<3, 10000, 1>>, <<19, 10, 1>>>>,
     <<<<20224, 1, Million>>, <<1, 100, 1>>, <<7, 100, 1>>, <<17, 10, 1>>>>,
     <<<<20224, 1, Million>>, <<0, 1, 1>>, <<1, 100, 1>>, <<6, 1, 1>>>>,
     <<<<20224, 1, Million>>, <<0, 1, 1>>, <<0, 1, 1>>, <<6, 1, 1>>>>,
     <<<<20224, 1, Million>>, <<1, 1, 1>>, <<1, 1, 1>>, <<0, 1, 1>>>>}

ScenarioArgs == {ScenarioArg(t) : t \in ScenarioNetworks}

TargetEntries(labels, f) ==
    [i \in 1..Len(labels) |-> <<labels[i], [stake_trb |-> f[2 * i - 1], actual_apr |-> f[2 * i]]>>]

\* a dict of targets, from its labels and the stake_trb and actual_apr of
\* each
TargetDict(t) == TargetEntries(t[1], NumSeq(t[2]))

\* no targets, and the dict of test_format_targets_for_display_with_apr
TestTargets ==
    <<<<"53.6% APR", "5.4% APR", "26.8% APR">>,
      <<<<100000, 1, 1>>, <<536, 10, 1>>, <<1000000, 1, 1>>, <<54, 10, 1>>,
        <<200000, 1, 1>>, <<268, 10, 1>>>>>>

TargetDicts == {<<<<>>, <<>>>>, TestTargets}

CurveRecord(f, n, m) ==
    [stake_amounts_trb |-> SubSeq(f, 1, n), weighted_avg_aprs |-> SubSeq(f, n + 1, n + m)]

\* stake_results as lists of n stakes and m APRs
ListCurve(t) == CurveRecord(NumSeq(t[3]), t[1], t[2])

\* the curve of the test, a curve of one sample, and data that is not valid
ListCurves ==
    {<<5, 5, <<<<50000, 1, 1>>, <<100000, 1, 1>>, <<200000, 1, 1>>, <<500000, 1, 1>>,
               <<1000000, 1, 1>>, <<100, 1, 1>>, <<50, 1, 1>>, <<25, 1, 1>>,
               <<10, 1, 1>>, <<5, 1, 1>>>>>>,
     <<1, 1, <<<<100, 1, 1>>, <<15, 2, 1>>>>>>,
     <<0, 0, <<>>>>,
     <<2, 1, <<<<50000, 1, 1>>, <<100000, 1, 1>>, <<100, 1, 1>>>>>>}

ListStakes ==
    <<<<20224000, 1, 1>>, <<50000, 1, 1>>, <<75000, 1, 1>>, <<100, 1, 1>>,
      <<100000, 1, 1>>, <<300000, 1, 1>>, <<1000000, 1, 1>>, <<10, 1, 1>>,
      <<0, 1, 1>>, <<1234567, 10, 1>>>>

\* the stakes the curve of a scenario run is read at: the stake main reads
\* it at, samples of the curve (every sample in the run of one network),
\* stakes half way between two samples and other stakes inside the curve,
\* and stakes off either end
HalfWayAfter == {1, 2, 500, 999}

OtherStakes ==
    <<<<150, 1, 1>>, <<20224, 1, 1>>, <<1999999, 1, 1>>, <<12345678, 100, 1>>,
      <<0, 1, 1>>, <<50, 1, 1>>, <<999, 10, 1>>, <<2000001, 1, 1>>,
      <<20224000, 1, 1>>>>

ReadAtEverySample ==
    <<<<20224, 1, Million>>, <<147, 1000, 1>>, <<3, 10000, 1>>, <<19, 10, 1>>>>

SamplesRead(a, every) ==
    IF a = every THEN 1..CurvePoints ELSE {1, 2, 3, 500, 999, 1000}

Range(f) == {f[i] : i \in DOMAIN f}

CurveStakes(base_total_stake, samples, others) ==
    {base_total_stake} \cup {stake_amounts_trb[i] : i \in samples}
    \cup {FDiv(FAdd(stake_amounts_trb[i], stake_amounts_trb[i + 1]), Two) : i \in HalfWayAfter}
    \cup Range(others)

FormatArgs(D, S, C) ==
    {[targets |-> d, current_total_stake |-> s, stake_results |-> c] : d \in D, s \in S, c \in C}

InitScenarios ==
    /\ \/ /\ op = "generate_stake_amount_scenarios"
          /\ args \in ScenarioArgs
       \/ /\ op = "format_targets_for_display_with_apr"
          /\ args \in FormatArgs({TargetDict(t) : t \in TargetDicts}, Range(NumSeq(ListStakes)),
                                 {ListCurve(t) : t \in ListCurves})
    /\ loc = NoLocals
    /\ pc = "call"
    /\ ret = NoResult

\* scenarios.py:64-87
CallScenarios ==
    /\ op = "generate_stake_amount_scenarios"
    /\ pc = "call"
    /\ LET l == scenario_locals(args.avg_mint_amount, args.avg_fee, args.avg_block_time)
       IN  IF l.kind = "raise"
           THEN /\ ret' = l
                /\ pc' = "done"
                /\ UNCHANGED loc
           ELSE /\ loc' = l.val
                /\ pc' = "loop"
                /\ UNCHANGED ret
    /\ UNCHANGED <<op, args>>

\* scenarios.py:89-94
ScenarioIteration ==
    /\ op = "generate_stake_amount_scenarios"
    /\ pc = "loop"
    /\ loc.i <= CurvePoints
    /\ loc' = scenario_iteration(loc)
    /\ UNCHANGED <<op, args, pc, ret>>

\* scenarios.py:96-102
ScenarioReturn ==
    /\ op = "generate_stake_amount_scenarios"
    /\ pc = "loop"
    /\ loc.i > CurvePoints
    /\ ret' = Value(scenario_results(loc.weighted_avg_aprs))
    /\ pc' = "done"
    /\ UNCHANGED <<op, args, loc>>

\* scenarios.py:257: a call of format_targets_for_display_with_apr on the curve
\* returned, with the dict of targets of the repository's test and a current
\* stake on, between or off the samples of the curve
CallFormatTargets ==
    /\ op = "generate_stake_amount_scenarios"
    /\ pc = "done"
    /\ ret.kind = "value"
    /\ op' = "format_targets_for_display_with_apr"
    /\ args' \in FormatArgs({TargetDict(TestTargets)},
                           CurveStakes(args.base_total_stake,
                                       SamplesRead(args, ScenarioArg(ReadAtEverySample)),
                                       NumSeq(OtherStakes)),
                           {ret.val})
    /\ loc' = NoLocals
    /\ pc' = "call"
    /\ ret' = NoResult

\* main.py:579-584: main goes on from the curve to the targets of the same
\* network and calls format_targets_for_display_with_apr on both
MainFormatTargets ==
    /\ op = "generate_stake_amount_scenarios"
    /\ pc = "done"
    /\ ret.kind = "value"
    /\ LET c == main_format_call(ret, find_apr_targets(args.avg_mint_amount, args.avg_fee, args.avg_block_time),
                                 args.base_total_stake)
       IN  /\ op' = c.op
           /\ args' = c.args
           /\ pc' = c.pc
           /\ ret' = c.ret
    /\ loc' = NoLocals

\* scenarios.py:257-311
FormatTargets ==
    /\ op = "format_targets_for_display_with_apr"
    /\ pc = "call"
    /\ loc' = format_targets_for_display_with_apr(args.targets, args.current_total_stake, args.stake_results)
    /\ ret' = Value(loc'.display_dict)
    /\ pc' = "done"
    /\ UNCHANGED <<op, args>>

NextScenarios ==
    CallScenarios \/ ScenarioIteration \/ ScenarioReturn \/ CallFormatTargets
    \/ MainFormatTargets \/ FormatTargets

SpecScenarios == InitScenarios /\ [][NextScenarios]_vars

ScenariosReturned ==
    op = "generate_stake_amount_scenarios" /\ pc = "done" /\ ret.kind = "value"

FormatReturned == op = "format_targets_for_display_with_apr" /\ pc = "done"

(***************************************************************************)
(* The curve generate_stake_amount_scenarios returns                       *)
(***************************************************************************)
\* avg_mint * blocks_per_year - avg_fee * 0.5 * blocks_per_year, the mint and
\* the fee in loya
C15_NetRewards(avg_mint_loya, avg_fee_loya, blocks_per_year) ==
    FSub(FMul(avg_mint_loya, blocks_per_year),
         FMul(FMul(avg_fee_loya, Half), blocks_per_year))

\* net_rewards / X * 100 at every total stake X of stakes
C15_Curve(net_rewards, stakes) ==
    [i \in 1..Len(stakes) |-> FMul(FDiv(net_rewards, stakes[i]), Hundred)]

\* the samples in loya
C15_Loya(stakes_trb) == [i \in 1..Len(stakes_trb) |-> FMul(stakes_trb[i], FromInt(10 ^ 6))]

\* C15: generate_stake_amount_scenarios returns a curve of 1000 samples whose
\* stake values rise from 100 to 2,000,000 TRB, and at every sample X the APR
\* is (avg_mint * blocks_per_year - avg_fee * 0.5 * blocks_per_year) / X * 100
\* with X as the total stake of the network (mint, fee and X in loya); the
\* formula has no base_total_stake in it.
C15_CurveOfFormula ==
    ScenariosReturned =>
        /\ Len(ret.val.stake_amounts_trb) = 1000
        /\ Len(ret.val.weighted_avg_aprs) = 1000
        /\ ret.val.stake_amounts_trb[1] = FromInt(100)
        /\ ret.val.stake_amounts_trb[1000] = FromInt(2000000)
        /\ \A i \in 1..999 :
              FLt(ret.val.stake_amounts_trb[i], ret.val.stake_amounts_trb[i + 1])
        /\ ret.val.stake_amounts = C15_Loya(ret.val.stake_amounts_trb)
        /\ ret.val.weighted_avg_aprs
              = C15_Curve(C15_NetRewards(FMul(args.avg_mint_amount, FromInt(10 ^ 6)),
                                         FMul(args.avg_fee, FromInt(10 ^ 6)),
                                         FDiv(FromInt(365 * 24 * 3600), args.avg_block_time)),
                          ret.val.stake_amounts)

\* a curve of a network with a mint and a fee, returned for a base_total_stake
\* of 1,500,000 TRB, another network having the same mint, fee and block
\* time with a base_total_stake of 20,224 TRB
C15_Witness ==
    /\ ScenariosReturned
    /\ Positive(args.avg_mint_amount) /\ Positive(args.avg_fee)
    /\ args.base_total_stake = FMul(FromInt(1500000), FromInt(10 ^ 6))
    /\ Positive(ret.val.weighted_avg_aprs[1000])

(***************************************************************************)
(* The direction of the curve                                              *)
(***************************************************************************)
\* net_rewards_per_year as line 92 computes it
C16_NetRewards == FSub(loc.total_mint_per_year, loc.total_fees_per_year)

\* C16 as claimed: every curve of generate_stake_amount_scenarios is
\* monotonically decreasing in the APR as the stake rises, for every network
\* with avg_fee >= 0 and avg_block_time > 0, whatever avg_mint is.
C16_Decreasing ==
    (ScenariosReturned /\ ~Negative(args.avg_fee) /\ Positive(args.avg_block_time)) =>
        \A i \in 1..(CurvePoints - 1) :
            FGe(ret.val.weighted_avg_aprs[i], ret.val.weighted_avg_aprs[i + 1])

\* C16 as amended: the curve falls strictly from sample to sample when the
\* net rewards per year are above 0; it is 0 at every sample when they are 0,
\* and below 0 and rising strictly when they are below 0.
C16_DecreasingForPositiveNet ==
    ScenariosReturned =>
        \A i \in 1..(CurvePoints - 1) :
            /\ Positive(C16_NetRewards)
               => FGt(ret.val.weighted_avg_aprs[i], ret.val.weighted_avg_aprs[i + 1])
            /\ FIsZero(C16_NetRewards)
               => /\ FIsZero(ret.val.weighted_avg_aprs[i])
                  /\ FIsZero(ret.val.weighted_avg_aprs[i + 1])
            /\ Negative(C16_NetRewards)
               => /\ Negative(ret.val.weighted_avg_aprs[i + 1])
                  /\ FLt(ret.val.weighted_avg_aprs[i], ret.val.weighted_avg_aprs[i + 1])

\* a curve of a network whose fees are above 0 and below its mint: the APR
\* of the first sample is above the APR of the last
C16_Witness ==
    /\ ScenariosReturned
    /\ Positive(args.avg_fee)
    /\ Positive(C16_NetRewards)
    /\ FGt(ret.val.weighted_avg_aprs[1], ret.val.weighted_avg_aprs[CurvePoints])

(***************************************************************************)
(* The scenario formula and calculate_apr_by_stake on the whole network    *)
(***************************************************************************)
\* the stakes X in TRB the scenario formula is evaluated at: the samples of
\* the curve and the levels of find_apr_targets
C18_Stakes ==
    [i \in 1..(CurvePoints + Len(total_stake_levels_trb)) |->
        IF i <= CurvePoints THEN stake_amounts_trb[i]
        ELSE FromInt(total_stake_levels_trb[i - CurvePoints])]

\* the scenario APRs at these stakes: the curve, and lines 147-154 of
\* find_apr_targets on the same totals
C18_ScenarioAprs ==
    [i \in 1..(CurvePoints + Len(total_stake_levels_trb)) |->
        IF i <= CurvePoints THEN ret.val.weighted_avg_aprs[i]
        ELSE scenario_apr(loc.total_mint_per_year, loc.total_fees_per_year,
                          FMul(C18_Stakes[i], FromInt(Million)))]

\* calculate_apr_by_stake(X, X, avg_mint, avg_fee, avg_block_time)
C18_ShareApr(X) ==
    apr_value(X, X, args.avg_mint_amount, args.avg_fee, args.avg_block_time)

\* C18 as claimed: the scenario APR at total stake X equals
\* calculate_apr_by_stake(stake = X, total_active_stake = X, avg_mint,
\* avg_fee, avg_block_time), X in the TRB of the curve and of the targets.
C18_EqualsShareFormula ==
    ScenariosReturned =>
        \A i \in DOMAIN C18_Stakes : C18_ScenarioAprs[i] = C18_ShareApr(C18_Stakes[i])

\* (|avg_mint| + |avg_fee| / 2) * blocks_per_year * 100
C18_Gross ==
    FMul(FMul(FAdd(FAbs(args.avg_mint_amount), FDiv(FAbs(args.avg_fee), Two)),
              FDiv(FromInt(SecondsPerYear), args.avg_block_time)),
         Hundred)

\* 2^-49 of gross / X
C18_Rounding(gross, X) ==
    FMul(FDiv(FDiv(One, FromInt(2 ^ 25)), FromInt(2 ^ 24)), FDiv(gross, X))

\* a and b are no more than t apart
C18_Near(a, b, t) == FLe(FAbs(FSub(a, b)), t)

\* C18 as amended: the two agree up to rounding, within 2^-49 of
\* (|avg_mint| + |avg_fee| / 2) * blocks_per_year / X * 100, for X in TRB.
C18_NearShareFormula ==
    ScenariosReturned =>
        \A i \in DOMAIN C18_Stakes :
            C18_Near(C18_ScenarioAprs[i], C18_ShareApr(C18_Stakes[i]),
                     C18_Rounding(C18_Gross, C18_Stakes[i]))

\* a curve of a network with a mint and a fee one of whose APRs is not the
\* double calculate_apr_by_stake returns
C18_Witness ==
    /\ ScenariosReturned
    /\ Positive(args.avg_mint_amount) /\ Positive(args.avg_fee)
    /\ \E i \in 1..CurvePoints :
          /\ ret.val.weighted_avg_aprs[i] # C18_ShareApr(stake_amounts_trb[i])
          /\ C18_Near(ret.val.weighted_avg_aprs[i], C18_ShareApr(stake_amounts_trb[i]),
                      C18_Rounding(C18_Gross, stake_amounts_trb[i]))

(***************************************************************************)
(* The APR format_targets_for_display_with_apr reads off the curve         *)
(***************************************************************************)
\* the call has returned and its stake_results hold as many stakes as APRs,
\* and at least one
CurveRead ==
    /\ FormatReturned
    /\ Len(args.stake_results.stake_amounts_trb) > 0
    /\ Len(args.stake_results.stake_amounts_trb) = Len(args.stake_results.weighted_avg_aprs)

\* C19: interpolating the curve at a stake that is one of its sampled stakes
\* returns the APR stored for that sample, exactly, at every sample.
C19_ExactAtSamples ==
    CurveRead =>
        \A i \in 1..Len(args.stake_results.stake_amounts_trb) :
            FEq(args.current_total_stake, args.stake_results.stake_amounts_trb[i])
            => loc.current_apr = args.stake_results.weighted_avg_aprs[i]

\* the curve of a scenario run read at its 500th sample, an APR above 0
C19_Witness ==
    /\ CurveRead
    /\ Len(args.stake_results.stake_amounts_trb) = CurvePoints
    /\ args.current_total_stake = args.stake_results.stake_amounts_trb[500]
    /\ loc.current_apr = args.stake_results.weighted_avg_aprs[500]
    /\ Positive(loc.current_apr)

\* the point at x of the line through (x0, y0) and (x1, y1)
C20_Line(x, x0, x1, y0, y1) ==
    FAdd(y0, FMul(FDiv(FSub(y1, y0), FSub(x1, x0)), FSub(x, x0)))

\* the display dict has the key
C20_HasKey(display_dict, key) ==
    \E k \in 1..Len(display_dict) : display_dict[k][1] = key

\* C20: at a stake between two samples the APR read off the curve is the
\* linear interpolation between the two; at a stake below the first sample
\* it is the APR of the first sample, and at a stake above the last sample
\* the APR of the last, which the 'APR (Current)' entry then shows.
C20_LinearInsideClampedOutside ==
    CurveRead =>
        /\ \A j \in 1..(Len(args.stake_results.stake_amounts_trb) - 1) :
              (/\ FLt(args.stake_results.stake_amounts_trb[j], args.current_total_stake)
               /\ FLt(args.current_total_stake, args.stake_results.stake_amounts_trb[j + 1]))
              => loc.current_apr
                   = C20_Line(args.current_total_stake,
                              args.stake_results.stake_amounts_trb[j],
                              args.stake_results.stake_amounts_trb[j + 1],
                              args.stake_results.weighted_avg_aprs[j],
                              args.stake_results.weighted_avg_aprs[j + 1])
        /\ FLt(args.current_total_stake, args.stake_results.stake_amounts_trb[1])
           => loc.current_apr = args.stake_results.weighted_avg_aprs[1]
        /\ FGt(args.current_total_stake,
               args.stake_results.stake_amounts_trb[Len(args.stake_results.stake_amounts_trb)])
           => /\ loc.current_apr
                   = args.stake_results.weighted_avg_aprs[Len(args.stake_results.weighted_avg_aprs)]
              /\ C20_HasKey(ret.val,
                     format_f(args.stake_results.weighted_avg_aprs[Len(args.stake_results.weighted_avg_aprs)], 1, FALSE)
                     \o "% APR (Current)")

\* the curve of a scenario run read half way between its second and its
\* third sample: an APR below that of the second and above that of the third
C20_Witness ==
    /\ CurveRead
    /\ Len(args.stake_results.stake_amounts_trb) = CurvePoints
    /\ FLt(args.stake_results.stake_amounts_trb[2], args.current_total_stake)
    /\ FLt(args.current_total_stake, args.stake_results.stake_amounts_trb[3])
    /\ FLt(loc.current_apr, args.stake_results.weighted_avg_aprs[2])
    /\ FGt(loc.current_apr, args.stake_results.weighted_avg_aprs[3])

(***************************************************************************)
(* Calls of find_apr_targets, and of format_targets_for_display_with_apr   *)
(* on the targets found.                                                   *)
(***************************************************************************)
\* networks as ScenarioNetworks: total stake in loya, mint, fee, block time.
\* Targets of 3, 4 and 5 digits, of less than 0.05%, one of exactly 1000%,
\* none for a net reward that is zero or negative, and a block time of 0.
TargetNetworks ==
    {<<<<20224, 1, Million>>, <<147, 1000, 1>>, <<3, 10000, 1>>, <<19, 10, 1>>>>,
     <<<<20224, 1, Million>>, <<147, 1000, 1>>, <<0, 1, 1>>, <<6, 1, 1>>>>,
     <<<<20224, 1, Million>>, <<1, 10000, 1>>, <<0, 1, 1>>, <<6, 1, 1>>>>,
     <<<<20224, 1, Million>>, <<1, 100, 1>>, <<1, 1000, 1>>, <<6, 1, 1>>>>,
     <<<<20224, 1, Million>>, <<1, 100, 1>>, <<7, 100, 1>>, <<17, 10, 1>>>>,
     <<<<20224, 1, Million>>, <<500000, 1, 1>>, <<0, 1, 1>>, <<SecondsPerYear, 1, 1>>>>,
     <<<<20224, 1, Million>>, <<17, 1, 1>>, <<1, 2, 1>>, <<6, 1, 1>>>>,
     <<<<20224, 1, Million>>, <<9, 1, 1>>, <<1, 1, 1>>, <<6, 1, 1>>>>,
     <<<<20224, 1, Million>>, <<1, 1, Million>>, <<5, 1, 1>>, <<6, 1, 1>>>>,
     <<<<20224, 1, Million>>, <<0, 1, 1>>, <<0, 1, 1>>, <<6, 1, 1>>>>,
     <<<<20224, 1, Million>>, <<1, 1, 1>>, <<1, 1, 1>>, <<0, 1, 1>>>>}

TargetArgs == {ScenarioArg(t) : t \in TargetNetworks}

InitTargets ==
    /\ op = "find_apr_targets"
    /\ args \in TargetArgs
    /\ loc = NoLocals
    /\ pc = "call"
    /\ ret = NoResult

\* scenarios.py:115-144
CallTargets ==
    /\ op = "find_apr_targets"
    /\ pc = "call"
    /\ LET l == target_locals(args.avg_mint_amount, args.avg_fee, args.avg_block_time)
       IN  IF l.kind = "raise"
           THEN /\ ret' = l
                /\ pc' = "done"
                /\ UNCHANGED loc
           ELSE /\ loc' = l.val
                /\ pc' = "loop"
                /\ UNCHANGED ret
    /\ UNCHANGED <<op, args>>

\* scenarios.py:146-161
TargetIteration ==
    /\ op = "find_apr_targets"
    /\ pc = "loop"
    /\ loc.i <= Len(total_stake_levels_trb)
    /\ loc' = target_iteration(loc)
    /\ UNCHANGED <<op, args, pc, ret>>

\* scenarios.py:163
TargetReturn ==
    /\ op = "find_apr_targets"
    /\ pc = "loop"
    /\ loc.i > Len(total_stake_levels_trb)
    /\ ret' = Value(loc.targets)
    /\ pc' = "done"
    /\ UNCHANGED <<op, args, loc>>

\* main.py:579-584: in main the targets found go on to
\* format_targets_for_display_with_apr with total_tokens_active and the curve
\* generate_stake_amount_scenarios returned for the same network
MainFormatFoundTargets ==
    /\ op = "find_apr_targets"
    /\ pc = "done"
    /\ ret.kind = "value"
    /\ LET c == main_format_call(generate_stake_amount_scenarios(args.avg_mint_amount, args.avg_fee, args.avg_block_time),
                                 ret, args.base_total_stake)
       IN  /\ op' = c.op
           /\ args' = c.args
           /\ pc' = c.pc
           /\ ret' = c.ret
    /\ loc' = NoLocals

\* scenarios.py:257: a call of format_targets_for_display_with_apr on the
\* targets found, with a current stake and a curve given as lists
FormatFoundTargets ==
    /\ op = "find_apr_targets"
    /\ pc = "done"
    /\ ret.kind = "value"
    /\ op' = "format_targets_for_display_with_apr"
    /\ args' \in FormatArgs({ret.val}, Range(NumSeq(ListStakes)),
                            {ListCurve(t) : t \in ListCurves})
    /\ loc' = NoLocals
    /\ pc' = "call"
    /\ ret' = NoResult

NextTargets ==
    CallTargets \/ TargetIteration \/ TargetReturn \/ FormatFoundTargets
    \/ MainFormatFoundTargets \/ FormatTargets

SpecTargets == InitTargets /\ [][NextTargets]_vars

TargetsReturned == op = "find_apr_targets" /\ pc = "done" /\ ret.kind = "value"

(***************************************************************************)
(* The mapping find_apr_targets returns                                    *)
(***************************************************************************)
\* the fixed checkpoints: 50k, 100k, 200k, 500k, 1M, 2M, 5M, 10M TRB
C21_Checkpoints == {50000, 100000, 200000, 500000, 1000000, 2000000, 5000000, 10000000}

\* sub occurs in str
C21_Contains(str, sub) ==
    \E i \in 1..(Len(str) - Len(sub) + 1) : SubSeq(str, i, i + Len(sub) - 1) = sub

\* R = avg_mint * blocks_per_year - avg_fee * 0.5 * blocks_per_year of the
\* call, mint and fee in loya
C21_NetRewards ==
    C15_NetRewards(FMul(args.avg_mint_amount, FromInt(10 ^ 6)),
                   FMul(args.avg_fee, FromInt(10 ^ 6)),
                   FDiv(FromInt(365 * 24 * 3600), args.avg_block_time))

\* R / stake * 100, the stake in loya as R
C21_AprAt(stake_trb) ==
    FMul(FDiv(C21_NetRewards, FMul(stake_trb, FromInt(10 ^ 6))), Hundred)

\* C21: every entry of the mapping find_apr_targets returns has the stake_trb
\* of one of the fixed checkpoints, actual_apr = R / stake_trb * 100 with
\* R = avg_mint * blocks_per_year - avg_fee * 0.5 * blocks_per_year (R and
\* the stake in one unit), 0 < actual_apr < 1000 and a label holding "% APR".
C21_EntriesOfFormula ==
    TargetsReturned =>
        \A i \in 1..Len(ret.val) :
            /\ \E c \in C21_Checkpoints : ret.val[i][2].stake_trb = FromInt(c)
            /\ ret.val[i][2].actual_apr = C21_AprAt(ret.val[i][2].stake_trb)
            /\ FGt(ret.val[i][2].actual_apr, FromInt(0))
            /\ FLt(ret.val[i][2].actual_apr, FromInt(1000))
            /\ C21_Contains(ret.val[i][1], "% APR")

\* find_apr_targets has returned entries for a network with a fee, having
\* left out checkpoints of 1000% and more
C21_Witness ==
    /\ TargetsReturned
    /\ Positive(args.avg_fee)
    /\ Len(ret.val) >= 3
    /\ \E c \in C21_Checkpoints : FGe(C21_AprAt(FromInt(c)), FromInt(1000))

(***************************************************************************)
(* The entries and the checkpoints that qualify                            *)
(***************************************************************************)
C26_Qualifying ==
    {c \in C21_Checkpoints : /\ FGt(C21_AprAt(FromInt(c)), FromInt(0))
                             /\ FLt(C21_AprAt(FromInt(c)), FromInt(1000))}

\* C26: the mapping find_apr_targets returns has one entry for every fixed
\* checkpoint whose APR satisfies 0 < apr < 1000: as many entries as there
\* are such checkpoints.
C26_OneEntryPerQualifyingCheckpoint ==
    TargetsReturned => Len(ret.val) = Cardinality(C26_Qualifying)

(***************************************************************************)
(* The order in which the targets enter the display dictionary             *)
(***************************************************************************)
\* the place of the key in the dict, 0 if it is not in it
C27_Place(d, key) ==
    IF \E i \in 1..Len(d) : d[i][1] = key
    THEN CHOOSE i \in 1..Len(d) : d[i][1] = key
    ELSE 0

\* C27: format_targets_for_display_with_apr adds the target points to the
\* display dictionary in descending order of their APR: of any two target
\* entries the one with the larger actual_apr is inserted first.
C27_DescendingApr ==
    (FormatReturned /\ ret.kind = "value") =>
        \A i, j \in 1..Len(args.targets) :
            FGt(args.targets[i][2].actual_apr, args.targets[j][2].actual_apr)
                => /\ C27_Place(ret.val, args.targets[i][1]) > 0
                   /\ C27_Place(ret.val, args.targets[i][1])
                        < C27_Place(ret.val, args.targets[j][1])

(***************************************************************************)
(* scenarios.py: simulate_validator_set and                                *)
(* calculate_weighted_avg_apr_scenario                                     *)
(***************************************************************************)
\* mutant of capped_validators: the count is not capped
capped_validators_unbounded(num_validators) == num_validators

\* scenarios.py:27: min(num_validators, 100)
capped_validators(num_validators) == IF num_validators < 100 THEN num_validators ELSE 100

\* scenarios.py:31-32: [total_stake / n] * n, the division raising for n = 0
\* and the list empty for n < 0
uniform_stakes(total_stake, n) ==
    IF n = 0 THEN Raise("ZeroDivisionError")
    ELSE Value([i \in 1..n |-> FDiv(total_stake, FromInt(n))])

\* scenarios.py:10-34
simulate_validator_set(total_stake, num_validators, stake_distribution) ==
    IF stake_distribution = "uniform"
    THEN uniform_stakes(total_stake, capped_validators(num_validators))
    ELSE Raise("ValueError")

\* scenarios.py:41-42: total_weighted_apr = 0.0, total_power = 0
weighted_locals == [i |-> 1, total_weighted_apr |-> FZero(0), total_power |-> FZero(0)]

\* scenarios.py:49-50
weighted_add(l, stake, apr) ==
    [l EXCEPT !.i = l.i + 1,
              !.total_weighted_apr = FAdd(l.total_weighted_apr, FMul(apr, stake)),
              !.total_power = FAdd(l.total_power, stake)]

\* scenarios.py:44-50: one pass of the loop, the locals after it or what
\* calculate_apr_by_stake raised
weighted_pass(l, stake, apr) ==
    IF ~Positive(stake) THEN Value([l EXCEPT !.i = l.i + 1])
    ELSE IF apr.kind = "raise" THEN apr
    ELSE Value(weighted_add(l, stake, apr.val))

weighted_iteration(l, a) ==
    weighted_pass(l, a.validator_stakes[l.i],
                  calculate_apr_by_stake(a.validator_stakes[l.i], a.total_tokens_active,
                                         a.avg_mint_amount, a.avg_fee, a.avg_block_time))

\* scenarios.py:52-55
weighted_return(l) ==
    IF FIsZero(l.total_power) THEN FZero(0)
    ELSE FDiv(l.total_weighted_apr, l.total_power)

(***************************************************************************)
(* Calls of simulate_validator_set, of calculate_weighted_avg_apr_scenario *)
(* on the validator set it returned, with its total stake as the stake of  *)
(* the network, and of calculate_weighted_avg_apr_scenario on other sets.  *)
(***************************************************************************)
\* the largest num_validators of a call
MaxNumValidators == 150

NumValidators == {-3, 0, 1, 2, 3, 7, 10, 99, 100, 101, MaxNumValidators}

\* total stakes, in TRB and (the first, that of the test) in loya
TotalStakes ==
    <<<<10000, 1, Million>>, <<100, 1, 1>>, <<50000, 1, 1>>, <<20224, 1, 1>>, <<1, 1, 1>>,
      <<0, 1, 1>>>>

SimulateArgs(S, N, D) ==
    {[total_stake |-> s, num_validators |-> n, stake_distribution |-> d] :
        s \in S, n \in N, d \in D}

WeightedRecord(stakes, f) ==
    [validator_stakes |-> stakes, total_tokens_active |-> f[1], avg_mint_amount |-> f[2],
     avg_fee |-> f[3], avg_block_time |-> f[4]]

\* mint, fee and block time: a fee, no fee, a fee above twice the mint, and
\* a block time of 0
ValidatorNetworks ==
    {<<<<147, 1000, 1>>, <<3, 10000, 1>>, <<19, 10, 1>>>>,
     <<<<147, 1000, 1>>, <<0, 1, 1>>, <<6, 1, 1>>>>,
     <<<<1, 100, 1>>, <<7, 100, 1>>, <<17, 10, 1>>>>,
     <<<<1, 1, 1>>, <<1, 1, 1>>, <<0, 1, 1>>>>}

\* the validator set of a call on the set simulate_validator_set returned
WeightedOfSet(stakes, total_stake, net) ==
    WeightedRecord(stakes, <<total_stake>> \o NumSeq(net))

\* other sets: stakes and the network; that of
\* test_calculate_weighted_avg_apr_scenario, a set with stakes that are not
\* positive, the empty set, and a network without stake
OtherSets ==
    {<<<<<<1000000, 1, 1>>, <<2000000, 1, 1>>, <<3000000, 1, 1>>>>,
       <<<<10000, 1, Million>>, <<1000000, 1, 1>>, <<5, 1, 1>>, <<6, 1, 1>>>>>>,
     <<<<<<0, 1, 1>>, <<300, 1, 1>>, <<-200, 1, 1>>, <<700, 1, 1>>>>,
       <<<<1000, 1, 1>>, <<147, 1000, 1>>, <<3, 10000, 1>>, <<19, 10, 1>>>>>>,
     <<<<<<0, 1, 1>>, <<-5, 1, 1>>>>,
       <<<<1000, 1, 1>>, <<147, 1000, 1>>, <<3, 10000, 1>>, <<19, 10, 1>>>>>>,
     <<<<>>, <<<<1000, 1, 1>>, <<147, 1000, 1>>, <<3, 10000, 1>>, <<19, 10, 1>>>>>>,
     <<<<<<300, 1, 1>>, <<700, 1, 1>>>>,
       <<<<0, 1, 1>>, <<147, 1000, 1>>, <<3, 10000, 1>>, <<19, 10, 1>>>>>>}

WeightedOfList(t) == WeightedRecord(NumSeq(t[1]), NumSeq(t[2]))

InitValidators ==
    /\ \/ /\ op = "simulate_validator_set"
          /\ args \in SimulateArgs(Range(NumSeq(TotalStakes)), NumValidators,
                                   {"uniform", "invalid"})
          /\ loc = NoLocals
       \/ /\ op = "calculate_weighted_avg_apr_scenario"
          /\ args \in {WeightedOfList(t) : t \in OtherSets}
          /\ loc = weighted_locals
    /\ pc = "call"
    /\ ret = NoResult

\* scenarios.py:10-34
CallSimulate ==
    /\ op = "simulate_validator_set"
    /\ pc = "call"
    /\ ret' = simulate_validator_set(args.total_stake, args.num_validators,
                                     args.stake_distribution)
    /\ pc' = "done"
    /\ UNCHANGED <<op, args, loc>>

\* the set returned goes to calculate_weighted_avg_apr_scenario
CallWeightedAvg ==
    /\ op = "simulate_validator_set"
    /\ pc = "done"
    /\ ret.kind = "value"
    /\ op' = "calculate_weighted_avg_apr_scenario"
    /\ args' \in {WeightedOfSet(ret.val, args.total_stake, net) : net \in ValidatorNetworks}
    /\ loc' = weighted_locals
    /\ pc' = "call"
    /\ ret' = NoResult

\* scenarios.py:44-50
WeightedIteration ==
    /\ op = "calculate_weighted_avg_apr_scenario"
    /\ pc = "call"
    /\ loc.i <= Len(args.validator_stakes)
    /\ LET l == weighted_iteration(loc, args)
       IN  IF l.kind = "raise"
           THEN /\ ret' = l
                /\ pc' = "done"
                /\ UNCHANGED loc
           ELSE /\ loc' = l.val
                /\ UNCHANGED <<pc, ret>>
    /\ UNCHANGED <<op, args>>

\* scenarios.py:52-55
WeightedReturn ==
    /\ op = "calculate_weighted_avg_apr_scenario"
    /\ pc = "call"
    /\ loc.i > Len(args.validator_stakes)
    /\ ret' = Value(weighted_return(loc))
    /\ pc' = "done"
    /\ UNCHANGED <<op, args, loc>>

NextValidators == CallSimulate \/ CallWeightedAvg \/ WeightedIteration \/ WeightedReturn

SpecValidators == InitValidators /\ [][NextValidators]_vars

SimulateDone == op = "simulate_validator_set" /\ pc = "done"

WeightedReturned ==
    op = "calculate_weighted_avg_apr_scenario" /\ pc = "done" /\ ret.kind = "value"

(***************************************************************************)
(* The uniform validator set                                               *)
(***************************************************************************)
\* min(n, 100)
C22_Capped(n) == IF n <= 100 THEN n ELSE 100

\* the call returned C22_Capped(num_validators) stakes, each the double
\* total_stake / C22_Capped(num_validators)
C22_EqualShares ==
    /\ ret.kind = "value"
    /\ Len(ret.val) = C22_Capped(args.num_validators)
    /\ \A i \in 1..Len(ret.val) :
          ret.val[i] = FDiv(args.total_stake, FromInt(C22_Capped(args.num_validators)))

\* the validator set of a call of calculate_weighted_avg_apr_scenario is
\* one simulate_validator_set returned for a positive total stake, which is
\* the total_tokens_active of the call; total_power is then the sum of the
\* set as Python adds it up, from 0 and left to right
C22_SumOfUniformSet ==
    /\ WeightedReturned
    /\ Len(args.validator_stakes) \in 1..100
    /\ Positive(args.total_tokens_active)
    /\ \A i \in 1..Len(args.validator_stakes) :
          args.validator_stakes[i]
              = FDiv(args.total_tokens_active, FromInt(Len(args.validator_stakes)))

\* C22 as claimed: simulate_validator_set(total_stake, n, 'uniform') returns
\* exactly min(n, 100) stakes, all equal to total_stake divided by that
\* count, and the stakes sum to total_stake; any other stake_distribution
\* raises ValueError.
C22_UniformSumsToTotal ==
    /\ SimulateDone =>
          IF args.stake_distribution = "uniform" THEN C22_EqualShares
          ELSE ret = Raise("ValueError")
    /\ C22_SumOfUniformSet => FEq(loc.total_power, args.total_tokens_active)

\* n * 2^-53 * |total_stake|: the rounding of the division and of the n - 1
\* additions that are not exact
C22_Allowance(n, total_stake) == FMul(FMul(FromInt(n), C14_HalfUlp), FAbs(total_stake))

\* C22 as amended: for n >= 1 the call returns exactly min(n, 100) stakes,
\* all equal to the double total_stake / min(n, 100), whose sum is
\* total_stake up to rounding (within min(n, 100) * 2^-53 * |total_stake|);
\* for n = 0 it raises ZeroDivisionError, for n < 0 it returns the empty
\* list; any other stake_distribution raises ValueError.
C22_UniformSumsNearTotal ==
    /\ SimulateDone =>
          IF args.stake_distribution # "uniform" THEN ret = Raise("ValueError")
          ELSE IF args.num_validators = 0 THEN ret = Raise("ZeroDivisionError")
          ELSE IF args.num_validators < 0 THEN ret = Value(<<>>)
          ELSE C22_EqualShares
    /\ C22_SumOfUniformSet =>
          C18_Near(loc.total_power, args.total_tokens_active,
                   C22_Allowance(Len(args.validator_stakes), args.total_tokens_active))

\* the 100 equal stakes returned for more than 100 validators have been
\* added up, to a sum that is not the total stake
C22_Witness ==
    /\ C22_SumOfUniformSet
    /\ Len(args.validator_stakes) = 100
    /\ ~FEq(loc.total_power, args.total_tokens_active)

(***************************************************************************)
(* The scenario formula and the APR of a validator of a uniform set        *)
(***************************************************************************)
\* the validator set of the call is total_tokens_active in equal shares
C28_UniformSet ==
    /\ Len(args.validator_stakes) \in 1..100
    /\ Positive(args.total_tokens_active)
    /\ simulate_validator_set(args.total_tokens_active, Len(args.validator_stakes), "uniform")
          = Value(args.validator_stakes)

\* scenarios.py:70-93 at a total stake of X TRB
C28_ScenarioTotals ==
    scenario_totals(args.avg_mint_amount, args.avg_fee,
                    FDiv(FromInt(SecondsPerYear), args.avg_block_time))

C28_ScenarioApr(X) ==
    scenario_apr(C28_ScenarioTotals.total_mint_per_year,
                 C28_ScenarioTotals.total_fees_per_year, FMul(X, FromInt(Million)))

\* 2^-40 of (|avg_mint| + |avg_fee| / 2) * blocks_per_year / X * 100, far
\* above the rounding of either formula and of the weighted average
C28_Allowance(X) == FMul(FromInt(2 ^ 9), C18_Rounding(C18_Gross, X))

\* C28: at every total stake X the scenario APR is the APR of any validator
\* under a uniform distribution: it equals calculate_apr_by_stake(X / n, X,
\* avg_mint, avg_fee, avg_block_time), and calculate_weighted_avg_apr_scenario
\* over simulate_validator_set(X, n), for every n from 1 to 100 (equality
\* taken up to rounding, within C28_Allowance).
C28_UniformValidatorApr ==
    (WeightedReturned /\ C28_UniformSet) =>
        /\ C18_Near(C28_ScenarioApr(args.total_tokens_active),
                    apr_value(args.validator_stakes[1], args.total_tokens_active,
                              args.avg_mint_amount, args.avg_fee, args.avg_block_time),
                    C28_Allowance(args.total_tokens_active))
        /\ C18_Near(C28_ScenarioApr(args.total_tokens_active), ret.val,
                    C28_Allowance(args.total_tokens_active))

(***************************************************************************)
(* module_data/mint.py: Minter.calculate_block_provision.  time_diff is a  *)
(* Python int or float, held as the double it equals; the ints of the      *)
(* function are Python ints, without a width.                              *)
(***************************************************************************)
DAILY_MINT_RATE == 146940000

MILLISECONDS_IN_DAY == 24 * 60 * 60 * 1000

\* mint.py:8-10: Minter(bond_denom)
Minter(bond_denom) == [bond_denom |-> bond_denom, previous_block_time |-> None]

\* int(x) of a float x >= 0, as a natural number of any size
BTruncate(x) ==
    IF FIsZero(x) THEN <<>>
    ELSE IF x.e >= 0 THEN BShl(x.m, x.e)
    ELSE BShr(x.m, 0 - x.e)

\* the int of a natural number below 2^31
RECURSIVE BToInt(_)
BToInt(a) == IF a = <<>> THEN 0 ELSE a[1] + BASE * BToInt(Tail(a))

\* mint.py:23: int(time_diff * 1000)
time_elapsed_ms(time_diff) == BTruncate(FMul(time_diff, FromInt(1000)))

\* mint.py:26: DAILY_MINT_RATE * time_elapsed_ms // MILLISECONDS_IN_DAY
mint_amount(elapsed_ms) ==
    BToInt(BDivMod(BMul(BFromInt(DAILY_MINT_RATE), elapsed_ms),
                   BFromInt(MILLISECONDS_IN_DAY)).q)

\* mutant of calculate_block_provision: only a negative time_diff raises
calculate_block_provision_negative_only(self, time_diff) ==
    IF FLt(time_diff, FZero(0)) THEN Raise("ValueError")
    ELSE Value(mint_amount(time_elapsed_ms(time_diff)))

\* mint.py:18-28: what the call returns or raises
calculate_block_provision(self, time_diff) ==
    IF FLe(time_diff, FZero(0)) THEN Raise("ValueError")
    ELSE Value(mint_amount(time_elapsed_ms(time_diff)))

\* mint.py:18-28: the Minter after the call; no field is assigned
provision_self(self, time_diff) == self

(***************************************************************************)
(* Calls of calculate_block_provision on a Minter                          *)
(***************************************************************************)
\* the largest whole number k of the time differences k, k / 7 and k / 1000
MaxTimeUnits == 40

\* time differences in seconds, as triples <<n, d, k>> for n / d * k: whole
\* seconds, fractions, and the samples 0.57 s, 59.999 s, a day, a day and a
\* half and -0.5 s
TimeDiffTriples ==
    {<<k, d, 1>> : k \in (0 - 1)..MaxTimeUnits, d \in {1, 7, 1000}}
    \cup {<<57, 100, 1>>, <<59999, 1000, 1>>, <<86400, 1, 1>>, <<3, 2, 86400>>,
          <<0 - 1, 2, 1>>}

TimeDiffs == {Num(t) : t \in TimeDiffTriples}

\* Minter(), Minter("custom"), and a Minter whose previous_block_time was set
Minters ==
    {Minter("loya"), Minter("custom"),
     [Minter("loya") EXCEPT !.previous_block_time = FromInt(1234567890)]}

MintArgs(M, T) == {[self |-> m, time_diff |-> t] : m \in M, t \in T}

InitMint ==
    /\ op = "calculate_block_provision"
    /\ args \in MintArgs(Minters, TimeDiffs)
    /\ loc = NoLocals
    /\ pc = "call"
    /\ ret = NoResult

\* mint.py:18-28
CallProvision ==
    /\ op = "calculate_block_provision"
    /\ pc = "call"
    /\ ret' = calculate_block_provision(args.self, args.time_diff)
    /\ args' = [args EXCEPT !.self = provision_self(args.self, args.time_diff)]
    /\ pc' = "done"
    /\ UNCHANGED <<op, loc>>

NextMint == CallProvision

SpecMint == InitMint /\ [][NextMint]_vars

MintDone == op = "calculate_block_provision" /\ pc = "done"

(***************************************************************************)
(* The block provision                                                     *)
(***************************************************************************)
\* n = floor(x) for a float x
C23_IsFloor(n, x) == FLe(FromInt(n), x) /\ FLt(x, FromInt(n + 1))

\* q = floor(a * b / d) for natural numbers a, b, d, in numbers of any size
C23_IsQuotient(q, a, b, d) ==
    /\ BCmp(BMul(BFromInt(q), BFromInt(d)), BMul(BFromInt(a), BFromInt(b))) <= 0
    /\ BCmp(BMul(BFromInt(a), BFromInt(b)), BMul(BFromInt(q + 1), BFromInt(d))) < 0

\* the return of the call is floor(146940000 * ms / 86400000)
C23_ProvisionOf(ms) ==
    /\ ret.kind = "value"
    /\ C23_IsFloor(ms, FMul(args.time_diff, FromInt(1000)))
    /\ C23_IsQuotient(ret.val, 146940000, ms, 86400000)

\* what is returned for time differences from time_diff on is not below v
C23_NotBelowFrom(time_diff, v) ==
    \A t \in TimeDiffs :
        FLe(time_diff, t) => calculate_block_provision(args.self, t).val >= v

C23_Returns ==
    MintDone =>
        IF FLe(args.time_diff, FromInt(0)) THEN ret = Raise("ValueError")
        ELSE /\ C23_ProvisionOf(BToInt(time_elapsed_ms(args.time_diff)))
             /\ C23_NotBelowFrom(args.time_diff, ret.val)
             /\ (args.time_diff = FromInt(86400) => ret.val = 146940000)

C23_SelfUnchanged ==
    (op = "calculate_block_provision" /\ pc = "call") => args'.self = args.self

\* C23: calculate_block_provision(time_diff) raises ValueError for every
\* time_diff <= 0, and for time_diff > 0 returns
\* floor(DAILY_MINT_RATE * floor(time_diff * 1000) / MILLISECONDS_IN_DAY),
\* which is non-decreasing in time_diff and is DAILY_MINT_RATE for
\* time_diff = 86400 seconds; the call leaves bond_denom and
\* previous_block_time unchanged.
C23_BlockProvision == [](C23_Returns) /\ [][C23_SelfUnchanged]_vars

\* a provision of a fraction of a second that is not a whole number of
\* milliseconds has been returned by a Minter whose previous_block_time is
\* set
C23_Witness ==
    /\ MintDone
    /\ ret.kind = "value"
    /\ ret.val > 0
    /\ args.self.previous_block_time # None
    /\ FLt(args.time_diff, FromInt(1))
    /\ FromInt(BToInt(time_elapsed_ms(args.time_diff))) # FMul(args.time_diff, FromInt(1000))


(***************************************************************************)
(* TellorRPCClient (chain_data/rpc_client.py) and the endpoint getters     *)
(* (config.py)                                                             *)
(***************************************************************************)
\* an optional str argument: None (the default of the parameter) or a str
NoneStr == [none |-> TRUE, s |-> ""]
Str(s) == [none |-> FALSE, s |-> s]

\* Python truth of an optional str: None and "" are falsy
truthy(x) == ~x.none /\ x.s # ""

\* str.rstrip(ch) for a one-character ch
RECURSIVE rstrip(_, _)
rstrip(s, ch) == IF Len(s) > 0 /\ SubSeq(s, Len(s), Len(s)) = ch THEN rstrip(SubSeq(s, 1, Len(s) - 1), ch) ELSE s

\* dict.get(key, default) on a config dictionary
config_get(config, key, default) == IF key \in DOMAIN config THEN config[key] ELSE default

\* config.py:33-43; argv is the tuple of positional arguments of the call
get_rpc_endpoint(argv) == IF Len(argv) # 1 THEN Raise("TypeError") ELSE Value(config_get(argv[1], "rpc_endpoint", "http://localhost:26657"))

\* config.py:46-56
get_rest_endpoint(argv) == IF Len(argv) # 1 THEN Raise("TypeError") ELSE Value(config_get(argv[1], "rest_endpoint", "http://localhost:1317"))

\* rpc_client.py:24: rpc_endpoint or get_rpc_endpoint()
rpc_or_default(rpc_endpoint) == IF truthy(rpc_endpoint) THEN Value(rpc_endpoint.s) ELSE get_rpc_endpoint(<<>>)

\* rpc_client.py:25: rest_endpoint or get_rest_endpoint()
rest_or_default(rest_endpoint) == IF truthy(rest_endpoint) THEN Value(rest_endpoint.s) ELSE get_rest_endpoint(<<>>)

client_fields(rpc, rest) == Value([rpc_endpoint |-> rstrip(rpc, "/"), rest_endpoint |-> rstrip(rest, "/")])

client_rest(rpc, rest) == IF rest.kind = "raise" THEN rest ELSE client_fields(rpc.val, rest.val)

client_rpc(rpc, rest_endpoint) == IF rpc.kind = "raise" THEN rpc ELSE client_rest(rpc, rest_or_default(rest_endpoint))

\* rpc_client.py:16-25: TellorRPCClient.__init__
TellorRPCClient(rpc_endpoint, rest_endpoint) == client_rpc(rpc_or_default(rpc_endpoint), rest_endpoint)

main_construct(rpc, rest) == TellorRPCClient(Str(rpc.val), Str(rest.val))

\* checker.py:58-63: the client of a report run, built from the configuration
main_client(config) == main_construct(get_rpc_endpoint(<<config>>), get_rest_endpoint(<<config>>))

\* rpc_client.py:29: the URL of an RPC query
query_rpc_url(self, endpoint) == self.rpc_endpoint \o "/" \o endpoint

EndpointUrls == {"http://localhost:26657", "http://localhost:26657/", "http://localhost:26657//", "http://node:1317", "http://node:1317/", "/", ""}

EndpointArgs == {NoneStr} \cup {Str(u) : u \in EndpointUrls}

ConfigKeys == {"rpc_endpoint", "rest_endpoint"}

Configs == UNION {[K -> EndpointUrls \ {""}] : K \in SUBSET ConfigKeys}

RpcPaths == {"status", "block"}

ClientCalls == [rpc_endpoint : EndpointArgs, rest_endpoint : EndpointArgs]

MainCalls == [config : Configs]

InitClient ==
    /\ op \in {"TellorRPCClient", "main"}
    /\ args \in IF op = "main" THEN MainCalls ELSE ClientCalls
    /\ loc = NoLocals
    /\ pc = "call"
    /\ ret = NoResult

\* rpc_client.py:16-25
CallClient ==
    /\ op = "TellorRPCClient"
    /\ pc = "call"
    /\ ret' = TellorRPCClient(args.rpc_endpoint, args.rest_endpoint)
    /\ pc' = "done"
    /\ UNCHANGED <<op, args, loc>>

\* checker.py:55-63
CallMainClient ==
    /\ op = "main"
    /\ pc = "call"
    /\ ret' = main_client(args.config)
    /\ pc' = "done"
    /\ UNCHANGED <<op, args, loc>>

\* rpc_client.py:27-29: query_rpc on a constructed client, up to the URL it fetches
CallQueryRpc ==
    /\ op \in {"TellorRPCClient", "main"}
    /\ pc = "done"
    /\ ret.kind = "value"
    /\ \E endpoint \in RpcPaths :
        /\ args' = [self |-> ret.val, endpoint |-> endpoint]
        /\ ret' = Value(query_rpc_url(ret.val, endpoint))
    /\ op' = "query_rpc"
    /\ UNCHANGED <<loc, pc>>

NextClient == CallClient \/ CallMainClient \/ CallQueryRpc

SpecClient == InitClient /\ [][NextClient]_vars

ClientDone == op = "TellorRPCClient" /\ pc = "done"

\* C25: constructing the client with an RPC endpoint URL and no REST endpoint
\* succeeds, and the client's rpc_endpoint is the URL given (a URL as the
\* repository's test gives it: not empty, no trailing slash).
C25_RpcOnlyConstruction ==
    (ClientDone /\ truthy(args.rpc_endpoint) /\ rstrip(args.rpc_endpoint.s, "/") = args.rpc_endpoint.s /\ args.rest_endpoint = NoneStr)
        => (ret.kind = "value" /\ ret.val.rpc_endpoint = args.rpc_endpoint.s)


(***************************************************************************)
(* query_recent_reports (chain_data/tx_data.py).  The chain is the         *)
(* environment: what the query of a height yields (a block with some       *)
(* number of submit-value transactions, or an exception) is chosen freely  *)
(* at every height.                                                        *)
(***************************************************************************)
\* str(n) for a natural number
RECURSIVE str_int(_)
str_int(n) == IF n < 10 THEN DigitChars[n + 1] ELSE str_int(n \div 10) \o DigitChars[(n % 10) + 1]

min(a, b) == IF a <= b THEN a ELSE b

\* seq[:n] for n >= 0
slice_to(seq, n) == SubSeq(seq, 1, min(n, Len(seq)))

\* the most submit-value transactions one block holds
MaxBlockTxs == 3

\* tx_data.py:94-135: the dicts built for the submit-value transactions of a block
block_txs_of(height, n) == [i \in 1..n |-> [height |-> height, index |-> i, is_submit_value |-> TRUE]]

\* what the query of one height yields
BlockOutcomes == {[raises |-> TRUE, n |-> 0]} \cup {[raises |-> FALSE, n |-> k] : k \in 0..MaxBlockTxs}

\* tx_data.py:137-139: only 2 transactions per block
txs_to_add_all(block_txs) == block_txs

txs_to_add(block_txs) == slice_to(block_txs, 2)

\* tx_data.py:75-78
reports_locals(current_height) == [height |-> current_height - 10, all_txs |-> <<>>, searched |-> <<>>, outcome |-> [raises |-> FALSE, n |-> 0]]

\* tx_data.py:81: the loop condition
reports_continue(l, current_height, limit) == Len(l.all_txs) < limit /\ l.height <= current_height

\* tx_data.py:82-148: one pass of the loop, the height answering with outcome
reports_iteration(l, outcome) ==
    [height |-> l.height + 1,
     all_txs |-> IF outcome.raises THEN l.all_txs ELSE l.all_txs \o txs_to_add(block_txs_of(l.height, outcome.n)),
     searched |-> Append(l.searched, l.height),
     outcome |-> outcome]

\* the value a function returns for Python's None
NoneDict == [none |-> TRUE]

\* tx_data.py:150-164
reports_return(all_txs, limit) ==
    [none |-> FALSE,
     total_count |-> str_int(Len(all_txs)),
     count |-> str_int(min(limit, Len(all_txs))),
     txs |-> slice_to(all_txs, limit)]

\* block_data.py:12-21: get_block_height_and_timestamp returns the current
\* height (and a timestamp), or raises: with no rpc_client, and when the
\* query of the client fails
get_block_height_and_timestamp(height_query, current_height) ==
    IF height_query = "raises" THEN Raise("Exception") ELSE Value(current_height)

\* calls by what the height query does, the height it returns and the limit;
\* no height is read of a query that raises
ReportCalls ==
    {<<"returns", 0, 10>>, <<"returns", 25, 10>>, <<"returns", 4, 3>>, <<"returns", 7, 5>>,
     <<"returns", 25, 1>>, <<"returns", 25, 0>>, <<"returns", 11, 2>>, <<"returns", 25, 4>>,
     <<"raises", 0, 10>>, <<"raises", 0, 3>>}

ReportArgs == {[height_query |-> c[1], current_height |-> c[2], limit |-> c[3]] : c \in ReportCalls}

InitReports ==
    /\ op = "query_recent_reports"
    /\ args \in ReportArgs
    /\ loc = NoLocals
    /\ pc = "call"
    /\ ret = NoResult

\* tx_data.py:70: the exception of the height query leaves the call, nothing
\* is searched
ReportsHeightRaises ==
    /\ op = "query_recent_reports"
    /\ pc = "call"
    /\ get_block_height_and_timestamp(args.height_query, args.current_height).kind = "raise"
    /\ ret' = get_block_height_and_timestamp(args.height_query, args.current_height)
    /\ pc' = "done"
    /\ UNCHANGED <<op, args, loc>>

\* tx_data.py:68-73: no current height, nothing is searched
ReportsNoHeight ==
    /\ op = "query_recent_reports"
    /\ pc = "call"
    /\ get_block_height_and_timestamp(args.height_query, args.current_height) = Value(0)
    /\ ret' = Value(NoneDict)
    /\ pc' = "done"
    /\ UNCHANGED <<op, args, loc>>

\* tx_data.py:68-78
CallReports ==
    /\ op = "query_recent_reports"
    /\ pc = "call"
    /\ get_block_height_and_timestamp(args.height_query, args.current_height).kind = "value"
    /\ args.current_height # 0
    /\ loc' = reports_locals(args.current_height)
    /\ pc' = "loop"
    /\ UNCHANGED <<op, args, ret>>

\* tx_data.py:81-148
ReportsIteration ==
    /\ op = "query_recent_reports"
    /\ pc = "loop"
    /\ reports_continue(loc, args.current_height, args.limit)
    /\ \E outcome \in BlockOutcomes : loc' = reports_iteration(loc, outcome)
    /\ UNCHANGED <<op, args, pc, ret>>

\* tx_data.py:150-164
ReportsReturn ==
    /\ op = "query_recent_reports"
    /\ pc = "loop"
    /\ ~reports_continue(loc, args.current_height, args.limit)
    /\ ret' = Value(reports_return(loc.all_txs, args.limit))
    /\ pc' = "done"
    /\ UNCHANGED <<op, args, loc>>

NextReports == ReportsHeightRaises \/ ReportsNoHeight \/ CallReports \/ ReportsIteration \/ ReportsReturn

\* the call is a sequential loop: a step that can be taken is taken
SpecReports == InitReports /\ [][NextReports]_vars /\ WF_vars(NextReports)

\* the height query returned a height other than 0: the call is in its scan
\* or has ended it
ReportsSearching ==
    /\ op = "query_recent_reports"
    /\ pc \in {"loop", "done"}
    /\ args.height_query = "returns"
    /\ args.current_height # 0

ReportsDone == op = "query_recent_reports" /\ pc = "done"

(***************************************************************************)
(* The scan of the recent heights                                          *)
(***************************************************************************)
\* the heights searched so far are current-10, current-9, ... in this order,
\* none twice and none above the current height
C29_AscendingOnce ==
    ReportsSearching =>
        /\ Len(loc.searched) <= 11
        /\ \A i \in 1..Len(loc.searched) : loc.searched[i] = args.current_height - 10 + (i - 1)

C29_TakenAt(txs, h) == Cardinality({i \in 1..Len(txs) : txs[i].height = h})

\* the call returns at most limit transactions, at most 2 of one height,
\* all of heights that were searched, and no exception leaves the scan
C29_Returned ==
    (ReportsDone /\ ReportsSearching) =>
        /\ ret.kind = "value"
        /\ Len(ret.val.txs) <= args.limit
        /\ \A i \in 1..Len(ret.val.txs) :
            /\ C29_TakenAt(ret.val.txs, ret.val.txs[i].height) <= 2
            /\ \E j \in 1..Len(loc.searched) : loc.searched[j] = ret.val.txs[i].height

\* a height is searched only while fewer than limit transactions are collected
C29_StopsAtLimit ==
    (ReportsSearching /\ ReportsSearching' /\ loc.searched' # loc.searched) => Len(loc.all_txs) < args.limit

\* a height whose query raises is passed over: nothing is collected from it,
\* the scan is at the next height and has not ended
C29_FailureSkipped ==
    (ReportsSearching /\ ReportsSearching' /\ loc.searched' # loc.searched /\ loc.outcome'.raises) =>
        /\ loc.all_txs' = loc.all_txs
        /\ loc.height' = loc.height + 1
        /\ pc' = "loop"
        /\ ret' = NoResult

\* C29: with a current height got, query_recent_reports searches the heights
\* current-10 .. current in ascending order, each at most once; whatever the
\* heights answer (blocks with any number of submit-value transactions, or
\* exceptions) it ends and returns at most limit transactions, at most 2 of
\* any one height; it searches no further height once limit transactions are
\* collected, and a height whose query raises is skipped without ending the
\* scan.
C29_BoundedScan ==
    /\ [](C29_AscendingOnce /\ C29_Returned)
    /\ [][C29_StopsAtLimit /\ C29_FailureSkipped]_vars
    /\ <>ReportsDone

\* a scan that ended early with a full sample although one height raised and
\* another held more than 2 transactions
C29_Witness ==
    /\ ReportsDone
    /\ ReportsSearching
    /\ args.limit = 10
    /\ Len(ret.val.txs) = 10
    /\ Len(loc.searched) < 11
    /\ loc.outcome.n = 3
    /\ \E j \in 1..Len(loc.searched) : C29_TakenAt(ret.val.txs, loc.searched[j]) = 0

\* a scan with an odd limit that collected one transaction more than it returns
C29_WitnessCut ==
    /\ ReportsDone
    /\ ReportsSearching
    /\ args.limit = 3
    /\ Len(loc.all_txs) = 4
    /\ Len(ret.val.txs) = 3


(***************************************************************************)
(* The reporting costs of a report run: get_min_gas_price                  *)
(* (module_data/globalfee.py), analyze_submit_value_transactions and       *)
(* print_submit_value_analysis (chain_data/tx_data.py) and the step of     *)
(* main that calls them (checker.py).  Arguments are Python objects, told  *)
(* apart by their type; the chain's answer to the gas price query (a price *)
(* or none) is the environment's choice.                                   *)
(***************************************************************************)
PyNone == [type |-> "NoneType"]

PyPath == [type |-> "str"]

PyClient == [type |-> "TellorRPCClient"]

\* a configuration dict: its keys and what float() makes of its min_gas_price
\* (None when float() raises)
PyDict(keys, price) == [type |-> "dict", keys |-> keys, min_gas_price |-> price]

\* globalfee.py:10-14: the price of the configuration, None if there is none
config_price(config) ==
    IF config.type = "dict" /\ config.keys # {} /\ "min_gas_price" \in config.keys THEN config.min_gas_price ELSE None

\* globalfee.py:16-104: the price the chain is asked for; an rpc_client that is
\* not a client has no rpc_endpoint (AttributeError, caught: None), and a
\* layerd_path that is not a path cannot be run (caught: None)
queried_price(layerd_path, rpc_client, chain) ==
    IF rpc_client.type # "NoneType" THEN (IF rpc_client.type = "TellorRPCClient" THEN chain ELSE None)
    ELSE IF layerd_path.type # "NoneType" THEN (IF layerd_path.type = "str" THEN chain ELSE None)
    ELSE None

\* globalfee.py:5-104
get_min_gas_price(layerd_path, rpc_client, config, chain) ==
    IF config_price(config) # None THEN config_price(config) ELSE queried_price(layerd_path, rpc_client, chain)

\* tx_data.py:168-180
zero_analysis == [tx_count |-> 0, total_fees_loya |-> 0, avg_fee_loya |-> FromInt(0)]

is_submit_value(tx) == tx.is_submit_value

\* tx_data.py:186-200: the transactions of the scan hold their tx as a str
submit_value_txs_of(txs) == SelectSeq(txs, is_submit_value)

\* tx_data.py:265: total_fees_loya += fee_amount
RECURSIVE total_fees_of(_)
total_fees_of(txs) == IF txs = <<>> THEN 0 ELSE total_fees_of(SubSeq(txs, 1, Len(txs) - 1)) + txs[Len(txs)].fee_amount

\* tx_data.py:303-321
analysis_of(submit_value_txs, total_fees_loya) ==
    [tx_count |-> Len(submit_value_txs),
     total_fees_loya |-> total_fees_loya,
     avg_fee_loya |-> FDiv(FromInt(total_fees_loya), FromInt(Len(submit_value_txs)))]

\* tx_data.py:223-238
analysis_priced(submit_value_txs, min_gas_price) ==
    IF min_gas_price = None THEN zero_analysis ELSE analysis_of(submit_value_txs, total_fees_of(submit_value_txs))

\* tx_data.py:202-214
analysis_filtered(submit_value_txs, layerd_path, rpc_client, config, chain) ==
    IF submit_value_txs = <<>> THEN zero_analysis
    ELSE analysis_priced(submit_value_txs, get_min_gas_price(layerd_path, rpc_client, config, chain))

\* tx_data.py:167-321
analyze_submit_value_transactions(tx_response, layerd_path, rpc_client, config, chain) ==
    IF tx_response.type = "NoneType" THEN zero_analysis
    ELSE analysis_filtered(submit_value_txs_of(tx_response.txs), layerd_path, rpc_client, config, chain)

\* tx_data.py:389-402
print_submit_value_analysis(tx_response, layerd_path, rpc_client, config, chain) ==
    analyze_submit_value_transactions(tx_response, layerd_path, rpc_client, config, chain)

\* checker.py:298: print_submit_value_analysis(txs, rpc_client, config), the
\* arguments taken by position
main_analysis(txs, rpc_client, config, chain) == print_submit_value_analysis(txs, rpc_client, config, PyNone, chain)

\* checker.py:301-303: get_min_gas_price(rpc_client, config), None replaced by 0
main_min_gas_price(price) == IF price = None THEN FromInt(0) ELSE price

\* the most transactions of one sample
MaxSampled == 3

SampledTxs == {[fee_amount |-> f, is_submit_value |-> TRUE] : f \in {0, 500, 700}} \cup {[fee_amount |-> 900, is_submit_value |-> FALSE]}

\* what query_recent_reports returns: None or a dict of transactions
TxResponses == {PyNone} \cup {[type |-> "dict", txs |-> t] : t \in UNION {[1..n -> SampledTxs] : n \in 0..MaxSampled}}

GasPrice == Num(<<1, 400, 1>>)

ChainPrices == {None, GasPrice}

FeeConfigs == {PyDict({}, None), PyDict({"rpc_endpoint"}, None), PyDict({"min_gas_price"}, GasPrice), PyDict({"min_gas_price", "rest_endpoint"}, None)}

\* the arguments of a direct call of print_submit_value_analysis
AnalysisCalls == [tx_response : TxResponses, layerd_path : {PyNone, PyPath}, rpc_client : {PyNone, PyClient}, config : {PyNone} \cup FeeConfigs, chain : ChainPrices]

\* a report run: its configuration, its client, the sample of the scan and the chain's answer
MainRuns == [txs : TxResponses, rpc_client : {PyClient}, config : FeeConfigs, chain : ChainPrices]

InitFees ==
    /\ op \in {"main", "print_submit_value_analysis"}
    /\ args \in IF op = "main" THEN MainRuns ELSE AnalysisCalls
    /\ loc = NoLocals
    /\ pc = "call"
    /\ ret = NoResult

\* tx_data.py:389-402
CallAnalysis ==
    /\ op = "print_submit_value_analysis"
    /\ pc = "call"
    /\ ret' = Value(print_submit_value_analysis(args.tx_response, args.layerd_path, args.rpc_client, args.config, args.chain))
    /\ pc' = "done"
    /\ UNCHANGED <<op, args, loc>>

\* checker.py:297-298
MainAnalysis ==
    /\ op = "main"
    /\ pc = "call"
    /\ loc' = [analysis |-> main_analysis(args.txs, args.rpc_client, args.config, args.chain)]
    /\ pc' = "analysed"
    /\ UNCHANGED <<op, args, ret>>

\* checker.py:300-303: the avg_fee the later computations are given
MainAvgFee ==
    /\ op = "main"
    /\ pc = "analysed"
    /\ loc' = [analysis |-> loc.analysis,
               avg_fee |-> loc.analysis.avg_fee_loya,
               min_gas_price |-> main_min_gas_price(get_min_gas_price(args.rpc_client, args.config, PyNone, args.chain))]
    /\ pc' = "done"
    /\ UNCHANGED <<op, args, ret>>

NextFees == CallAnalysis \/ MainAnalysis \/ MainAvgFee

SpecFees == InitFees /\ [][NextFees]_vars

MainFeeKnown == op = "main" /\ pc = "done"

(***************************************************************************)
(* The average fee of a report run                                         *)
(***************************************************************************)
C30_Sampled == submit_value_txs_of(args.txs.txs)

C30_Mean == FDiv(FromInt(total_fees_of(C30_Sampled)), FromInt(Len(C30_Sampled)))

\* C30: in a report run in which at least one submit-value transaction was
\* sampled, the avg_fee handed to the APR, break-even and scenario
\* computations is the mean fee_amount of the sampled transactions,
\* total_fees_loya / tx_count.
C30_AvgFeeIsMean ==
    (MainFeeKnown /\ args.txs.type = "dict" /\ C30_Sampled # <<>>) => FEq(loc.avg_fee, C30_Mean)


(***************************************************************************)
(* Concurrent calls of the core functions.  Every thread runs a program, a *)
(* sequence of calls; a call has its own frame of locals (loc[t]), and the *)
(* objects the calls are given (args: the reporter lists, the numbers of   *)
(* the network) and the state of the modules (the seed numpy.random is     *)
(* given when scenarios.py is imported) are shared by all threads.  A step *)
(* of a thread is the start of a call, one pass of its loop, or its        *)
(* return; the steps of the threads interleave in any order.               *)
(***************************************************************************)
Threads == {1, 2}

\* apr.py:537-539: the locals of calculate_apr_avgs before its loop
avgs_locals == [i |-> 1, total_weighted_apr |-> FZero(0), total_power |-> 0, apr_values |-> <<>>]

\* apr.py:541-546: one pass of the loop, on the record read from the list
avgs_iteration(l, reporter) ==
    [i |-> l.i + 1,
     total_weighted_apr |-> FAdd(l.total_weighted_apr, FMul(reporter.apr, FromInt(reporter.power_trb))),
     total_power |-> l.total_power + reporter.power_trb,
     apr_values |-> Append(l.apr_values, reporter.apr)]

\* apr.py:554: apr_values.sort(), the list of the call's own
RECURSIVE sort_values(_)
sort_values(apr_values) ==
    IF apr_values = <<>> THEN <<>>
    ELSE insert_ascending(sort_values(SubSeq(apr_values, 1, Len(apr_values) - 1)), apr_values[Len(apr_values)])

\* apr.py:548-561
avgs_finish(l) ==
    IF l.total_power = 0 THEN Value(<<FZero(0), FZero(0)>>)
    ELSE Value(<<FDiv(l.total_weighted_apr, FromInt(l.total_power)),
                 median_of(sort_values(l.apr_values), Len(l.apr_values))>>)

\* a record put into a list ascending by apr, behind its equals
RECURSIVE insert_record_ascending(_, _)
insert_record_ascending(sorted, x) ==
    IF sorted = <<>> THEN <<x>>
    ELSE IF FLe(Head(sorted).apr, x.apr)
    THEN <<Head(sorted)>> \o insert_record_ascending(Tail(sorted), x)
    ELSE <<x>> \o sorted

\* mutant of argument_after_sort: the sort is done on the list the caller gave
RECURSIVE argument_sorted_in_place(_)
argument_sorted_in_place(reporter_aprs) ==
    IF reporter_aprs = <<>> THEN <<>>
    ELSE insert_record_ascending(argument_sorted_in_place(SubSeq(reporter_aprs, 1, Len(reporter_aprs) - 1)), reporter_aprs[Len(reporter_aprs)])

\* apr.py:546, 554: the APRs are copied to apr_values and sorted there; the
\* list the caller gave keeps its order
argument_after_sort(reporter_aprs) == reporter_aprs

\* apr.py:355: the locals of calculate_reporter_aprs before its loop
reporters_locals == [i |-> 1, reporter_aprs |-> <<>>]

reporters_append(l, rec) ==
    IF rec.kind = "raise" THEN rec
    ELSE Value([i |-> l.i + 1, reporter_aprs |-> Append(l.reporter_aprs, rec.val)])

\* apr.py:357-375: one pass of the loop, on the reporter read from the list
reporters_iteration(l, reporter, power_trb, total_tokens_active, avg_mint_amount, avg_fee, avg_block_time) ==
    IF power_trb > 0
    THEN reporters_append(l, reporter_record(reporter, power_trb, total_tokens_active, avg_mint_amount, avg_fee, avg_block_time))
    ELSE Value([i |-> l.i + 1, reporter_aprs |-> l.reporter_aprs])

\* apr.py:377-379: the sort of the list the call built, and its return
reporters_finish(l) == Value(sort_by_power(l.reporter_aprs))

\* the programs of a thread: one call, or two calls one after the other
ShortPrograms ==
    {<<"calculate_apr_by_stake">>, <<"calculate_break_even_stake">>, <<"find_apr_targets">>,
     <<"calculate_apr_avgs", "calculate_apr_avgs">>,
     <<"calculate_reporter_aprs", "calculate_apr_avgs">>,
     <<"calculate_apr_avgs", "calculate_reporter_aprs">>}

\* the programs of two threads that run short calls
ShortThreads == ShortPrograms \X ShortPrograms

\* the 1000 passes of generate_stake_amount_scenarios run beside one short call
LongThreads == {<<<<"generate_stake_amount_scenarios">>, p>> : p \in {<<"calculate_apr_by_stake">>, <<"calculate_apr_avgs">>}}

\* the lists the calls share: reporters of get_reporters and records of
\* calculate_reporter_aprs, neither in the order of a sort
SharedReporters ==
    {<<Reporter("addr1", "1000000", "test1", "0.1"), Reporter("addr3", "0", "idle", ""), Reporter("addr2", "2000000", "test2", "0.05")>>,
     <<Reporter("addr6", "007", "bond", "1"), Reporter("addr2", "2000000", "test2", "0.05")>>}

ExampleRecords == <<AvgRecord(<<20, 1, 2000000>>), AvgRecord(<<1, 10, 1>>), AvgRecord(<<10, 1, 1000000>>)>>

SharedRecords == {ExampleRecords, <<AvgRecord(<<87, 10, 500000>>), AvgRecord(<<-5, 1, 1000000>>)>>, <<>>}

\* the network of tests/test_apr.py:99-102 and a stake and a median of it
SharedNetwork == NumSeq(<<<<10000, 1, Million>>, <<1000000, 1, 1>>, <<100000, 1, 1>>, <<6, 1, 1>>, <<1, 1, Million>>, <<500000, 1, 1>>>>)

SharedObjects(programs, reporters, records, f) ==
    [programs |-> programs,
     numpy_random_seed |-> 42,
     reporters_data |-> [active |-> reporters],
     reporter_aprs |-> records,
     total |-> f[1], mint |-> f[2], fee |-> f[3], bt |-> f[4], stake |-> f[5], median |-> f[6]]

ThreadCalls == (ShortThreads \X SharedReporters \X SharedRecords) \cup (LongThreads \X {<<>>} \X {ExampleRecords})

ThreadArgs == {SharedObjects(c[1], c[2], c[3], SharedNetwork) : c \in ThreadCalls}

InitThreads ==
    /\ op = "threads"
    /\ args \in ThreadArgs
    /\ loc = [t \in Threads |-> NoLocals]
    /\ pc = [t \in Threads |-> [k |-> 1, at |-> "idle"]]
    /\ ret = [t \in Threads |-> NoResult]

\* thread t is at the point at of a call of fn
Running(t, fn, at) ==
    /\ op = "threads"
    /\ pc[t].k <= Len(args.programs[t])
    /\ args.programs[t][pc[t].k] = fn
    /\ pc[t].at = at

\* the call of thread t returns (or raises) result
Returns(t, result) ==
    /\ ret' = [ret EXCEPT ![t] = result]
    /\ pc' = [pc EXCEPT ![t].at = "done"]

\* the call of thread t goes on with the locals l, or ends with their exception
GoesOn(t, l) ==
    IF l.kind = "raise"
    THEN Returns(t, l) /\ UNCHANGED loc
    ELSE /\ loc' = [loc EXCEPT ![t] = l.val]
         /\ pc' = [pc EXCEPT ![t].at = "loop"]
         /\ UNCHANGED ret

\* apr.py:7-20: straight-line code on its own numbers
ThreadAprByStake(t) ==
    /\ Running(t, "calculate_apr_by_stake", "idle")
    /\ Returns(t, calculate_apr_by_stake(args.stake, args.total, args.mint, args.fee, args.bt))
    /\ UNCHANGED <<op, args, loc>>

\* apr.py:23-33: code on its own numbers
ThreadBreakEven(t) ==
    /\ Running(t, "calculate_break_even_stake", "idle")
    /\ Returns(t, calculate_break_even_stake(args.total, args.mint, args.fee, args.bt, args.median))
    /\ UNCHANGED <<op, args, loc>>

\* apr.py:532-539
ThreadAvgsCall(t) ==
    /\ Running(t, "calculate_apr_avgs", "idle")
    /\ IF args.reporter_aprs = <<>>
       THEN Returns(t, Value(<<FZero(0), FZero(0)>>)) /\ UNCHANGED loc
       ELSE GoesOn(t, Value(avgs_locals))
    /\ UNCHANGED <<op, args>>

\* apr.py:541-546
ThreadAvgsIteration(t) ==
    /\ Running(t, "calculate_apr_avgs", "loop")
    /\ loc[t].i <= Len(args.reporter_aprs)
    /\ loc' = [loc EXCEPT ![t] = avgs_iteration(loc[t], args.reporter_aprs[loc[t].i])]
    /\ UNCHANGED <<op, args, pc, ret>>

\* apr.py:548-561
ThreadAvgsReturn(t) ==
    /\ Running(t, "calculate_apr_avgs", "loop")
    /\ loc[t].i > Len(args.reporter_aprs)
    /\ Returns(t, avgs_finish(loc[t]))
    /\ args' = [args EXCEPT !.reporter_aprs = argument_after_sort(args.reporter_aprs)]
    /\ UNCHANGED <<op, loc>>

\* apr.py:351-355
ThreadReportersCall(t) ==
    /\ Running(t, "calculate_reporter_aprs", "idle")
    /\ GoesOn(t, Value(reporters_locals))
    /\ UNCHANGED <<op, args>>

\* apr.py:357-375
ThreadReportersIteration(t) ==
    /\ Running(t, "calculate_reporter_aprs", "loop")
    /\ loc[t].i <= Len(args.reporters_data.active)
    /\ GoesOn(t, reporters_iteration(loc[t], args.reporters_data.active[loc[t].i], power_of(args.reporters_data.active[loc[t].i]), args.total, args.mint, args.fee, args.bt))
    /\ UNCHANGED <<op, args>>

\* apr.py:377-379
ThreadReportersReturn(t) ==
    /\ Running(t, "calculate_reporter_aprs", "loop")
    /\ loc[t].i > Len(args.reporters_data.active)
    /\ Returns(t, reporters_finish(loc[t]))
    /\ UNCHANGED <<op, args, loc>>

\* scenarios.py:115-144
ThreadTargetsCall(t) ==
    /\ Running(t, "find_apr_targets", "idle")
    /\ GoesOn(t, target_locals(args.mint, args.fee, args.bt))
    /\ UNCHANGED <<op, args>>

\* scenarios.py:146-161
ThreadTargetsIteration(t) ==
    /\ Running(t, "find_apr_targets", "loop")
    /\ loc[t].i <= Len(total_stake_levels_trb)
    /\ loc' = [loc EXCEPT ![t] = target_iteration(loc[t])]
    /\ UNCHANGED <<op, args, pc, ret>>

\* scenarios.py:163
ThreadTargetsReturn(t) ==
    /\ Running(t, "find_apr_targets", "loop")
    /\ loc[t].i > Len(total_stake_levels_trb)
    /\ Returns(t, Value(loc[t].targets))
    /\ UNCHANGED <<op, args, loc>>

\* scenarios.py:64-87
ThreadScenariosCall(t) ==
    /\ Running(t, "generate_stake_amount_scenarios", "idle")
    /\ GoesOn(t, scenario_locals(args.mint, args.fee, args.bt))
    /\ UNCHANGED <<op, args>>

\* scenarios.py:89-94
ThreadScenariosIteration(t) ==
    /\ Running(t, "generate_stake_amount_scenarios", "loop")
    /\ loc[t].i <= CurvePoints
    /\ loc' = [loc EXCEPT ![t] = scenario_iteration(loc[t])]
    /\ UNCHANGED <<op, args, pc, ret>>

\* scenarios.py:96-102
ThreadScenariosReturn(t) ==
    /\ Running(t, "generate_stake_amount_scenarios", "loop")
    /\ loc[t].i > CurvePoints
    /\ Returns(t, Value(scenario_results(loc[t].weighted_avg_aprs)))
    /\ UNCHANGED <<op, args, loc>>

\* the frame of the call is gone and the thread is at its next call
ThreadNextCall(t) ==
    /\ op = "threads"
    /\ pc[t].at = "done"
    /\ pc[t].k < Len(args.programs[t])
    /\ pc' = [pc EXCEPT ![t] = [k |-> pc[t].k + 1, at |-> "idle"]]
    /\ loc' = [loc EXCEPT ![t] = NoLocals]
    /\ UNCHANGED <<op, args, ret>>

NextThreads ==
    \E t \in Threads :
        \/ ThreadAprByStake(t)
        \/ ThreadBreakEven(t)
        \/ ThreadAvgsCall(t)
        \/ ThreadAvgsIteration(t)
        \/ ThreadAvgsReturn(t)
        \/ ThreadReportersCall(t)
        \/ ThreadReportersIteration(t)
        \/ ThreadReportersReturn(t)
        \/ ThreadTargetsCall(t)
        \/ ThreadTargetsIteration(t)
        \/ ThreadTargetsReturn(t)
        \/ ThreadScenariosCall(t)
        \/ ThreadScenariosIteration(t)
        \/ ThreadScenariosReturn(t)
        \/ ThreadNextCall(t)

SpecThreads == InitThreads /\ [][NextThreads]_vars

ThreadDone(t, fn) == Running(t, fn, "done")

(***************************************************************************)
(* Calls that run together                                                 *)
(***************************************************************************)
\* find_apr_targets run alone: its passes one after the other
RECURSIVE C24_TargetsFrom(_)
C24_TargetsFrom(l) == IF l.i > Len(total_stake_levels_trb) THEN Value(l.targets) ELSE C24_TargetsFrom(target_iteration(l))

C24_TargetsAlone(l) == IF l.kind = "raise" THEN l ELSE C24_TargetsFrom(l.val)

\* generate_stake_amount_scenarios run alone: the APR of every point of the curve
C24_CurveAlone(l) == [i \in 1..CurvePoints |-> scenario_apr(l.total_mint_per_year, l.total_fees_per_year, stake_amounts[i])]

C24_ScenariosAlone(l) == IF l.kind = "raise" THEN l ELSE Value(scenario_results(C24_CurveAlone(l.val)))

\* what the call fn returns when it runs alone on the shared objects
C24_Alone(fn) ==
    CASE fn = "calculate_apr_by_stake" -> calculate_apr_by_stake(args.stake, args.total, args.mint, args.fee, args.bt)
      [] fn = "calculate_break_even_stake" -> calculate_break_even_stake(args.total, args.mint, args.fee, args.bt, args.median)
      [] fn = "calculate_reporter_aprs" -> calculate_reporter_aprs(args.reporters_data, args.total, args.mint, args.fee, args.bt)
      [] fn = "calculate_apr_avgs" -> calculate_apr_avgs(args.reporter_aprs)
      [] fn = "find_apr_targets" -> C24_TargetsAlone(target_locals(args.mint, args.fee, args.bt))
      [] fn = "generate_stake_amount_scenarios" -> C24_ScenariosAlone(scenario_locals(args.mint, args.fee, args.bt))

\* every call that has returned, whatever the other thread did meanwhile,
\* returned what it returns alone
C24_SameAsAlone ==
    op = "threads" =>
        \A t \in Threads :
            (pc[t].at = "done") => ret[t] = C24_Alone(args.programs[t][pc[t].k])

\* no step changes an object the calls were given or the state of a module
C24_ArgumentsKept == (op = "threads") => (args' = args)

\* a call starts from locals of its own: nothing of an earlier call is left
C24_NoStateKept ==
    op = "threads" => \A t \in Threads : (pc[t].at = "idle") => loc[t] = NoLocals

\* C24: the core functions keep no state from call to call and leave their
\* arguments as they were: however the steps of concurrent calls interleave,
\* every call returns what it returns when it runs alone on the same arguments.
C24_PureUnderInterleaving ==
    /\ [](C24_SameAsAlone /\ C24_NoStateKept)
    /\ [][C24_ArgumentsKept]_vars

\* both threads are in the loops of calls on the same list, each having read
\* a part of it, after a first call of thread 1 has returned
C24_Witness ==
    /\ op = "threads"
    /\ pc[1] = [k |-> 2, at |-> "loop"]
    /\ pc[2] = [k |-> 1, at |-> "loop"]
    /\ args.programs[1][2] = "calculate_apr_avgs"
    /\ args.programs[2][1] = "calculate_apr_avgs"
    /\ loc[1].i = 2
    /\ loc[2].i = 3
    /\ Len(args.reporter_aprs) = 3

\* both calls on the shared list have returned, the second call of thread 1
\* having run while the call of thread 2 was in its loop
C24_WitnessReturned ==
    /\ op = "threads"
    /\ pc[1] = [k |-> 2, at |-> "done"]
    /\ pc[2] = [k |-> 2, at |-> "done"]
    /\ args.programs[1] = <<"calculate_reporter_aprs", "calculate_apr_avgs">>
    /\ args.programs[2] = <<"calculate_apr_avgs", "calculate_reporter_aprs">>
    /\ Len(args.reporter_aprs) = 3
    /\ ret[1].kind = "value"
    /\ ret[2].kind = "value"
=============================================================================
